---------------------------- MODULE Spec2Model ----------------------------
(***************************************************************************)
(* Authorization-request processing of the OpenID Connect provider in      *)
(* src/src/oicsrv/oic/authorization.py: redirect-URI validation,           *)
(* admission (_post_parse_request), authentication set-up (setup_auth),    *)
(* response assembly (create_authn_response), response-mode encoding and   *)
(* mix-up mitigation (post_authn, authz_part2, process_request); and the   *)
(* provider metadata built at start-up by create_providerinfo in           *)
(* src/src/oicsrv/srv_info.py and src/src/oidcendpoint/endpoint_context.py.*)
(*                                                                         *)
(* Text is modelled as a sequence of one-character strings, so that        *)
(* percent-decoding, splitting and query parsing are computed and not      *)
(* assumed.  A Python dict (a request, a client record, a parsed query) is *)
(* a function whose DOMAIN is the set of keys that are present.            *)
(***************************************************************************)
EXTENDS Integers, Sequences, FiniteSets, TLC

VARIABLES
    conf,       \* the configuration SrvInfo / EndpointContext is built from
    cdb,        \* srv_info.cdb: the client database
    sdb,        \* srv_info.sdb: the session store, sid -> session
    request,    \* the authorization request being handled
    kwargs,     \* keyword arguments of the handler that is running
    pc,         \* position of the flow
    result,     \* what the last handler handed back to its caller
    local,      \* locals of process_request / post_authn that outlive a step
    log         \* what the flow has done so far (calls to collaborators)

vars == <<conf, cdb, sdb, request, kwargs, pc, result, local, log>>

-----------------------------------------------------------------------------
(* Text helpers *)

\* The empty Python dict / empty keyword arguments.
EmptyDict == <<>>

\* Index of the first occurrence of character c in s, 0 when there is none.
RECURSIVE FirstIndex(_, _, _)
FirstIndex(s, c, i) ==
    IF i > Len(s) THEN 0
    ELSE IF s[i] = c THEN i
    ELSE FirstIndex(s, c, i + 1)

\* Index of the last occurrence of character c in s, 0 when there is none.
RECURSIVE LastIndex(_, _, _)
LastIndex(s, c, i) ==
    IF i < 1 THEN 0
    ELSE IF s[i] = c THEN i
    ELSE LastIndex(s, c, i - 1)

\* str.split(c): the pieces of s between the occurrences of c.
RECURSIVE split(_, _)
split(s, c) ==
    LET i == FirstIndex(s, c, 1)
    IN  IF i = 0 THEN <<s>>
        ELSE <<SubSeq(s, 1, i - 1)>> \o split(SubSeq(s, i + 1, Len(s)), c)

\* The percent-escapes that occur in the modelled inputs.
HexTable ==
    (<<"2", "3">> :> "#") @@ (<<"2", "5">> :> "%") @@
    (<<"2", "6">> :> "&") @@ (<<"6", "1">> :> "a")

\* urllib.parse.unquote: every %XX escape is replaced by its character, in
\* one pass from left to right (a decoded "%" is not decoded again).
RECURSIVE unquote(_)
unquote(s) ==
    IF s = <<>> THEN <<>>
    ELSE IF /\ Head(s) = "%"
            /\ Len(s) >= 3
            /\ <<s[2], s[3]>> \in DOMAIN HexTable
         THEN <<HexTable[<<s[2], s[3]>>]>> \o unquote(SubSeq(s, 4, Len(s)))
         ELSE <<Head(s)>> \o unquote(Tail(s))

\* urlparse(url).fragment: the text after the first "#".
urlparse_fragment(url) ==
    LET i == FirstIndex(url, "#", 1)
    IN  IF i = 0 THEN <<>> ELSE SubSeq(url, i + 1, Len(url))

\* Values that are not text: Python's None, and tagged text / dict values,
\* so that the type errors of the code can be told apart.
None == [tag |-> "None"]
Str(s) == [tag |-> "str", s |-> s]
Dict(d) == [tag |-> "dict", d |-> d]

\* urllib.parse.splitquery: (path, query) split at the last "?"; the query
\* is None when there is no "?".
splitquery(url) ==
    LET i == LastIndex(url, "?", Len(url))
    IN  IF i = 0 THEN [base |-> url, query |-> None]
        ELSE [base |-> SubSeq(url, 1, i - 1),
              query |-> Str(SubSeq(url, i + 1, Len(url)))]

\* urllib.parse.parse_qsl without keep_blank_values or strict_parsing: the
\* (name, value) pairs in order; a piece without "=" or with an empty value
\* is dropped, and names and values are percent-decoded.
RECURSIVE parse_pieces(_)
parse_pieces(pieces) ==
    IF pieces = <<>> THEN <<>>
    ELSE LET nv == Head(pieces)
             i == FirstIndex(nv, "=", 1)
             name == SubSeq(nv, 1, i - 1)
             value == SubSeq(nv, i + 1, Len(nv))
         IN  IF i = 0 \/ Len(value) = 0
             THEN parse_pieces(Tail(pieces))
             ELSE <<<<unquote(name), unquote(value)>>>> \o
                  parse_pieces(Tail(pieces))

parse_qsl(qs) == parse_pieces(split(qs, "&"))

\* The values, in order, of the pairs of `pairs` named `name`.
RECURSIVE values_of(_, _)
values_of(pairs, name) ==
    IF pairs = <<>> THEN <<>>
    ELSE IF Head(pairs)[1] = name
         THEN <<Head(pairs)[2]>> \o values_of(Tail(pairs), name)
         ELSE values_of(Tail(pairs), name)

\* urllib.parse.parse_qs: name -> list of values.
parse_qs(qs) ==
    LET pairs == parse_qsl(qs)
    IN  [name \in {pairs[i][1] : i \in 1..Len(pairs)} |-> values_of(pairs, name)]

\* The elements of a list.
Range(s) == {s[i] : i \in 1..Len(s)}

\* Python truthiness of None, text and dicts.
Truthy(x) ==
    CASE x.tag = "None" -> FALSE
      [] x.tag = "str" -> x.s # <<>>
      [] x.tag = "dict" -> DOMAIN x.d # {}

-----------------------------------------------------------------------------
(* Redirect-URI validation *)

\* Lines 108-112: every registered query component must exist in the
\* redirect_uri.  "ok", or the exception a failed assert or a lookup in a
\* value that is no dict raises.
registered_in_request(rquery, _query) ==
    IF ~Truthy(rquery) THEN "ok"
    ELSE CASE _query.tag = "None" -> "TypeError"
           [] _query.tag = "str" ->
                IF \A key \in DOMAIN rquery.d : key # _query.s
                THEN "AssertionError" ELSE "TypeError"
           [] _query.tag = "dict" ->
                IF \A key \in DOMAIN rquery.d :
                      /\ key \in DOMAIN _query.d
                      /\ \A val \in Range(rquery.d[key]) :
                            val \in Range(_query.d[key])
                THEN "ok" ELSE "AssertionError"

\* request_in_registered without its check: unregistered query components
\* of the redirect_uri are let through.
request_in_registered_unchecked(rquery, _query) == "ok"

\* Lines 115-121: and vice versa, every query component in the redirect_uri
\* must be registered.
request_in_registered(rquery, _query) ==
    IF ~Truthy(_query) THEN "ok"
    ELSE IF rquery.tag = "None" THEN "ValueError"
    ELSE IF \A key \in DOMAIN _query.d :
               /\ key \in DOMAIN rquery.d
               /\ \A val \in Range(_query.d[key]) :
                     val \in Range(rquery.d[key])
         THEN "ok" ELSE "AssertionError"

\* Lines 105-123 for one registered entry whose base equals the request's.
entry_check(rquery, _query) ==
    LET fwd == registered_in_request(rquery, _query)
    IN  IF fwd # "ok" THEN fwd ELSE request_in_registered(rquery, _query)

\* Lines 101-125: the for loop over the registered entries from entry i on.
\* The first entry whose base equals the request's base decides: "None" when
\* its query checks pass (match = True; break), the exception otherwise.
RECURSIVE match_loop(_, _, _, _)
match_loop(redirect_uris, _base, _query, i) ==
    IF i > Len(redirect_uris) THEN "RedirectURIError"
    ELSE IF _base = redirect_uris[i].base
         THEN LET chk == entry_check(redirect_uris[i].rquery, _query)
              IN  IF chk = "ok" THEN "None" ELSE chk
         ELSE match_loop(redirect_uris, _base, _query, i + 1)

\* verify_body without the fragment test of lines 93-95.
verify_body_fragment_allowed(db, req) ==
    IF "redirect_uri" \notin DOMAIN req THEN "KeyError"
    ELSE LET _redirect_uri == unquote(req["redirect_uri"])
             sq == splitquery(_redirect_uri)
             _query == IF Truthy(sq.query)
                       THEN Dict(parse_qs(sq.query.s)) ELSE sq.query
         IN  IF "client_id" \notin DOMAIN req
                \/ req["client_id"] \notin DOMAIN db
             THEN "KeyError"
             ELSE match_loop(db[req["client_id"]]["redirect_uris"],
                             sq.base, _query, 1)

\* Lines 90-127: the body of the try statement.
verify_body(db, req) ==
    IF "redirect_uri" \notin DOMAIN req THEN "KeyError"
    ELSE LET _redirect_uri == unquote(req["redirect_uri"])
             sq == splitquery(_redirect_uri)
             _query == IF Truthy(sq.query)
                       THEN Dict(parse_qs(sq.query.s)) ELSE sq.query
         IN  IF urlparse_fragment(_redirect_uri) # <<>> THEN "URIError"
             ELSE IF "client_id" \notin DOMAIN req
                     \/ req["client_id"] \notin DOMAIN db
                  THEN "KeyError"
             ELSE match_loop(db[req["client_id"]]["redirect_uris"],
                             sq.base, _query, 1)

\* verify_handler without the look-up of the client: every failure is
\* reported as RedirectURIError.
verify_handler_client_unchecked(db, req) ==
    IF "redirect_uri" \notin DOMAIN req THEN "KeyError" ELSE "RedirectURIError"

\* Lines 128-144: the except clause, which turns every exception of the body
\* into UnknownClient or RedirectURIError.
verify_handler(db, req) ==
    IF "redirect_uri" \notin DOMAIN req THEN "KeyError"
    ELSE IF "client_id" \notin DOMAIN req \/ req["client_id"] \notin DOMAIN db
         THEN "UnknownClient"
    ELSE "RedirectURIError"

\* verify_redirect_uri: "None" when the redirect URI is accepted, else the
\* name of the exception that leaves the function.
verify_redirect_uri(db, req) ==
    IF verify_body(db, req) = "None" THEN "None" ELSE verify_handler(db, req)

\* get_redirect_uri: the exception raised ("None" when none) and the URI.
get_redirect_uri(db, req) ==
    IF "redirect_uri" \in DOMAIN req
    THEN [raised |-> verify_redirect_uri(db, req), uri |-> req["redirect_uri"]]
    ELSE [raised |-> "ParameterError", uri |-> <<>>]

-----------------------------------------------------------------------------
(* Inputs: text, clients, requests *)

\* Redirect URIs and their parts, as text.
U_a == <<"a">>
U_b == <<"b">>
K_k == <<"k">>
K_j == <<"j">>
V_v == <<"v">>
V_w == <<"w">>

\* Registered query mappings, as registration stores them (None when the
\* registered URI had no query).
RegisteredQueries ==
    { None,
      Dict(EmptyDict),
      Dict(K_k :> <<V_v>>),
      Dict(K_k :> <<V_v, V_w>>),
      Dict(K_j :> <<V_v>>) }

\* Registered (base, query) entries.  A registered URI has been validated:
\* its base holds no "#" and no "?".
RegisteredEntries ==
    [base : {U_a, U_b}, rquery : RegisteredQueries]

\* The issuer identifier of this server (srv_info.issuer).
Issuer == "https://op.example"

\* The client database of the flow.  c1 registered one redirect URI and no
\* response types; c2 registered three redirect URIs and four response-type
\* combinations.
Cdb0 ==
    ("c1" :> ("redirect_uris" :> << [base |-> U_a, rquery |-> None] >>)) @@
    ("c2" :> [redirect_uris |->
                 << [base |-> U_a, rquery |-> Dict(K_k :> <<V_v>>)],
                    [base |-> U_a, rquery |-> None],
                    [base |-> U_b, rquery |-> None] >>,
              response_types |->
                 << <<"code">>, <<"id_token", "token">>,
                    <<"code", "id_token", "token">>, <<"none">> >>])

\* The client database after the registration endpoint replaced c1's
\* redirect URI, and after it removed c1.
Cdb1 ==
    [Cdb0 EXCEPT !["c1"] =
        ("redirect_uris" :> << [base |-> U_b, rquery |-> None] >>)]

Cdb2 == [c \in {"c2"} |-> Cdb0[c]]

Cdbs == {Cdb0, Cdb1, Cdb2}

\* Client ids a caller may present: two registered ones and an unknown one.
ClientIds == {"c1", "c2", "cX"}

\* request["response_type"] lists.
ResponseTypes ==
    { <<"code">>, <<"token">>, <<"id_token">>, <<"code", "token">>,
      <<"code", "id_token">>, <<"id_token", "token">>,
      <<"code", "id_token", "token">>, <<"none">>, <<"none", "none">>,
      <<"code", "foo">>, <<"id_token", "foo">> }

\* request["redirect_uri"] values of the flow: a, a?k=v, b, a#a, a?#a.
FlowURIs ==
    { U_a, <<"a", "?", "k", "=", "v">>, U_b, <<"a", "#", "a">>,
      <<"a", "?", "#", "a">> }

\* The acr definitions a request may carry in claims.id_token.acr.
AcrDefs ==
    { [values |-> <<"acr9">>],
      [values |-> <<"acr9", "acr2">>] }

\* An optional key of a dict: absent, or present with one of the values.
Opt(key, values) == {EmptyDict} \cup {key :> v : v \in values}

\* The parsed authorization requests of the flow, and the empty request.
Requests ==
    { ("client_id" :> c) @@ ("response_type" :> rt) @@ u @@ st @@ pr @@ cl @@ rm :
        c \in ClientIds, rt \in ResponseTypes,
        u \in Opt("redirect_uri", FlowURIs),
        st \in Opt("state", {"s1"}),
        pr \in Opt("prompt", {{"none"}, {"login"}}),
        cl \in Opt("claims", {[id_token |-> [acr |-> a]] : a \in AcrDefs}),
        rm \in Opt("response_mode", {"query", "fragment", "form_post", "web_message"}) }
    \cup {EmptyDict}

-----------------------------------------------------------------------------
(* What a handler hands back *)

\* Nothing handed back yet.
NoResult == [kind |-> "none", body |-> EmptyDict]

\* An AuthorizationErrorResponse with the given fields.
ErrorResponse(fields) == [kind |-> "error", body |-> fields]

\* An exception that leaves the handler and reaches its caller.
Raised(exc) == [kind |-> "exception", body |-> ("exception" :> exc)]

\* The locals of the flow before any step has run.
NoLocals ==
    [ admission |-> "pending",   \* outcome of _post_parse_request
      client_id |-> "",          \* the client_id argument of admission
      lookup |-> "",             \* how authenticated_as answered
      identity |-> "",           \* identity["uid"] of the answer, if any
      done |-> FALSE,            \* what authn.done(request) said
      info |-> EmptyDict,        \* what setup_auth handed back
      user |-> "",               \* identity["uid"]
      sid |-> 0,                 \* session key of the session of this flow
      response_info |-> EmptyDict,
      signer |-> "",             \* how sign_encrypt_id_token answered
      cause |-> "" ]             \* the exception behind an error response

-----------------------------------------------------------------------------
(* Admission: Authorization._post_parse_request *)

\* The response-type combinations admission compares against (lines 296-301).
registered_response_types(cinfo) ==
    IF "response_types" \in DOMAIN cinfo
    THEN {Range(rt) : rt \in Range(cinfo["response_types"])}
    ELSE {{"code"}}

\* Authorization.verify_response_type (a registered "code id_token" string
\* is modelled already split into its words).
verify_response_type(req, cinfo) ==
    Range(req["response_type"]) \notin registered_response_types(cinfo)

\* Lines 342-344: the error response for a redirect URI that failed.
admission_uri_error(err) ==
    ErrorResponse([error |-> "invalid_request", error_description |-> err])

\* _post_parse_request that validates the redirect URI before it looks the
\* client up.
_post_parse_request_uri_first(db, req, client_id) ==
    IF req = EmptyDict
    THEN [result |-> ErrorResponse([error |-> "invalid_request",
                         error_description |-> "Can not parse AuthzRequest"]),
          cause |-> "NoRequest", consulted |-> <<>>]
    ELSE LET r == get_redirect_uri(db, req)
         IN  IF r.raised # "None"
             THEN [result |-> admission_uri_error(r.raised),
                   cause |-> r.raised, consulted |-> <<"get_redirect_uri">>]
             ELSE IF client_id \notin DOMAIN db
             THEN [result |-> ErrorResponse([error |-> "unauthorized_client",
                                  error_description |-> "unknown client"]),
                   cause |-> "KeyError", consulted |-> <<"get_redirect_uri", "cdb">>]
             ELSE IF ~verify_response_type(req, db[client_id])
             THEN [result |-> ErrorResponse([error |-> "invalid_request",
                          error_description |-> "Trying to use unregistered response_typ"]),
                   cause |-> "response_type",
                   consulted |-> <<"get_redirect_uri", "cdb", "verify_response_type">>]
             ELSE [result |-> [kind |-> "request",
                               body |-> [req EXCEPT !["redirect_uri"] = r.uri]],
                   cause |-> "",
                   consulted |-> <<"get_redirect_uri", "cdb", "verify_response_type">>]

\* Authorization._post_parse_request: the value handed back, with the
\* exception behind an error response and the checks that were consulted.
_post_parse_request(db, req, client_id) ==
    IF req = EmptyDict
    THEN [result |-> ErrorResponse([error |-> "invalid_request",
                         error_description |-> "Can not parse AuthzRequest"]),
          cause |-> "NoRequest", consulted |-> <<>>]
    ELSE IF client_id \notin DOMAIN db
    THEN [result |-> ErrorResponse([error |-> "unauthorized_client",
                         error_description |-> "unknown client"]),
          cause |-> "KeyError", consulted |-> <<"cdb">>]
    ELSE IF ~verify_response_type(req, db[client_id])
    THEN [result |-> ErrorResponse([error |-> "invalid_request",
                 error_description |-> "Trying to use unregistered response_typ"]),
          cause |-> "response_type",
          consulted |-> <<"cdb", "verify_response_type">>]
    ELSE LET r == get_redirect_uri(db, req)
             consulted == <<"cdb", "verify_response_type", "get_redirect_uri">>
         IN  IF r.raised \in {"RedirectURIError", "ParameterError", "UnknownClient"}
             THEN [result |-> admission_uri_error(r.raised),
                   cause |-> r.raised, consulted |-> consulted]
             ELSE IF r.raised # "None"
             THEN [result |-> Raised(r.raised), cause |-> r.raised,
                   consulted |-> consulted]
             ELSE [result |-> [kind |-> "request",
                               body |-> [req EXCEPT !["redirect_uri"] = r.uri]],
                   cause |-> "", consulted |-> consulted]

\* The initial session store: one earlier session, of user bob (subject
\* subB) at client c2.
Sdb0 ==
    1 :> [ authn_event |-> [uid |-> "bob", authn_info |-> "acr1"],
           sub |-> "subB", client_id |-> "c2",
           code |-> [tag |-> "code", sid |-> 1],
           permission |-> [tag |-> "permission", user |-> "bob"],
           access_token |-> None, token_type |-> "", id_token |-> None,
           revoked |-> FALSE ]

Init ==
    /\ cdb = Cdb0
    /\ sdb = Sdb0
    /\ request \in Requests
    /\ kwargs = EmptyDict
    /\ conf = EmptyDict
    /\ pc = "Received"
    /\ result = NoResult
    /\ local = NoLocals
    /\ log = <<>>

\* The endpoint runs _post_parse_request on the parsed request, with the
\* client id it established for the caller.
PostParseRequest(client_id) ==
    /\ pc = "Received"
    /\ LET out == _post_parse_request(cdb, request, client_id)
       IN  /\ result' = out.result
           /\ pc' = CASE out.result.kind = "request" -> "RequestValidated"
                      [] out.result.kind = "error" -> "Error"
                      [] OTHER -> "Raised"
           /\ request' = IF out.result.kind = "request"
                         THEN out.result.body ELSE request
           /\ local' = [local EXCEPT
                           !.admission = IF out.result.kind = "request"
                                         THEN "admitted" ELSE "rejected",
                           !.client_id = client_id,
                           !.cause = out.cause]
           /\ log' = log \o out.consulted
    /\ kwargs' = ("client_id" :> client_id)
    /\ UNCHANGED <<conf, cdb, sdb>>

\* A flow that has ended: delivered, suspended for interactive login,
\* answered with an error response, or left by an exception.
Ended == pc \in {"Delivered", "AuthnPending", "Error", "Raised"}

\* The registration endpoint, which shares the client database, replaces or
\* removes a client while a request is in flight.
ClientDbChange ==
    /\ pc \in {"RequestValidated", "Assembled"}
    /\ cdb' \in Cdbs \ {cdb}
    /\ UNCHANGED <<conf, sdb, request, kwargs, pc, result, local, log>>

-----------------------------------------------------------------------------
(* Authentication set-up: pick_authn_method, setup_auth *)

\* srv_info.authn_broker: the registered (method, acr, level) tuples, in
\* registration order.  SrvInfo.__init__ reads authn_broker[0], so a server
\* that started has at least one.
Broker ==
    << [method |-> "m1", acr |-> "acr1", level |-> 1],
       [method |-> "m2", acr |-> "acr2", level |-> 2] >>

\* No method: the (None, None) of pick_auth and of a failed exact pick.
NoMethod == [method |-> "None", acr |-> "None", level |-> 0]

\* AuthnBroker.pick(acr, "exact"): the methods registered under exactly acr.
pick_exact(acr) ==
    SelectSeq(Broker, LAMBDA e : e.acr = acr)

\* pick_auth(srv_info, request, "better"): the lowest-level method whose
\* level is at least the baseline, if any.
pick_better(baseline) ==
    LET ok == {i \in 1..Len(Broker) : Broker[i].level >= baseline}
    IN  IF ok = {} THEN NoMethod
        ELSE Broker[CHOOSE i \in ok :
                       \A j \in ok : Broker[i].level <= Broker[j].level]

\* pick_auth(srv_info, request, "any"): the first registered method.
pick_any == Broker[1]

\* Authorization._acr_claims: the acr values of claims.id_token.acr, None
\* when the request has none.
_acr_claims(req) ==
    IF "claims" \notin DOMAIN req THEN None
    ELSE LET acrdef == req["claims"]["id_token"]["acr"]
         IN  IF "value" \in DOMAIN acrdef
             THEN [tag |-> "list", l |-> <<acrdef["value"]>>]
             ELSE IF "values" \in DOMAIN acrdef
             THEN [tag |-> "list", l |-> acrdef["values"]]
             ELSE None

\* pick_by_acrs that takes the first registered method whose acr the
\* request lists, in the order of registration.
pick_by_acrs_registration_order(acrs) ==
    LET hits == {i \in 1..Len(Broker) : Broker[i].acr \in Range(acrs)}
    IN  IF hits = {} THEN NoMethod
        ELSE Broker[CHOOSE i \in hits : \A j \in hits : i <= j]

\* Lines 380-388: the first acr of acrs, in order, with an exact hit gives
\* the method; (None, None) when none has.
RECURSIVE pick_by_acrs(_)
pick_by_acrs(acrs) ==
    IF acrs = <<>> THEN NoMethod
    ELSE LET res == pick_exact(Head(acrs))
         IN  IF res # <<>> THEN res[1] ELSE pick_by_acrs(Tail(acrs))

\* Authorization.pick_authn_method.  env.default_pick and env.baseline are
\* what the broker's default pick finds and the baseline of "better".
pick_authn_method(req, redirect_uri, env) ==
    LET acrs == _acr_claims(req)
        picked ==
            IF acrs.tag = "list" /\ acrs.l # <<>>
            THEN pick_by_acrs(acrs.l)
            ELSE IF env.default_pick # NoMethod THEN env.default_pick
            ELSE IF pick_better(env.baseline) # NoMethod
                 THEN pick_better(env.baseline)
            ELSE pick_any
    IN  IF picked = NoMethod
        THEN ErrorResponse([error |-> "access_denied",
                            redirect_uri |-> redirect_uri,
                            return_type |-> req["response_type"]])
        ELSE [kind |-> "tuple", body |-> picked]

\* max_age that prefers the top-level max_age to the nested one.
max_age_top_first(req) ==
    IF "max_age" \in DOMAIN req THEN req["max_age"]
    ELSE IF "request" \in DOMAIN req /\ "max_age" \in DOMAIN req["request"]
    THEN req["request"]["max_age"]
    ELSE 0

\* max_age(request): the nested request object's max_age, else the
\* top-level one, else 0.
max_age(req) ==
    IF "request" \in DOMAIN req /\ "max_age" \in DOMAIN req["request"]
    THEN req["request"]["max_age"]
    ELSE IF "max_age" \in DOMAIN req THEN req["max_age"]
    ELSE 0

\* Lines 427-430: the max_age handed to authenticated_as.
effective_max_age(req) ==
    IF "upm_answer" \in DOMAIN req /\ req["upm_answer"] = "true"
    THEN 0 ELSE max_age(req)

\* re_authenticate(request, authn); done is what authn.done(request) says.
re_authenticate(req, done) ==
    "prompt" \in DOMAIN req /\ "login" \in req["prompt"] /\ done

\* authn_args_gather: the arguments for the authentication method.  The
\* query is the request urlencoded; as_user is the one-element tuple that
\* line 171 makes.  (No client of this model registered policy_uri,
\* logo_uri or tos_uri, and no request carries ui_locales or acr_values.)
authn_args_gather(req, authn_class_ref, kw) ==
    ("authn_class_ref" :> Str(authn_class_ref)) @@
    ("query" :> [tag |-> "urlencoded", of |-> req]) @@
    (IF "req_user" \in DOMAIN kw
     THEN "as_user" :> [tag |-> "tuple", l |-> <<kw["req_user"]>>] ELSE EmptyDict)

\* sdb.get_sids_by_sub(sub): the session keys of the subject, oldest first.
get_sids_by_sub(store, sub) ==
    {sid \in DOMAIN store : store[sid].sub = sub}

\* The last of a non-empty set of session keys (sids[-1]).
LastSid(sids) == CHOOSE sid \in sids : \A other \in sids : other <= sid

\* The users authenticated_as may report, and the subject of each.
Users == {"alice", "bob"}
Sub(uid) == IF uid = "alice" THEN "subA" ELSE "subB"

\* What authn.authenticated_as may do: raise one of the three recognised
\* exceptions, return no identity, or return the identity of a user.
LookupOutcomes ==
    { [raised |-> e, uid |-> "None"] :
        e \in {"NoSuchAuthentication", "TamperAllert", "ToOld"} }
    \cup { [raised |-> "None", uid |-> u] : u \in Users \cup {"None"} }

\* no_identity without the prompt test: the authentication is always run.
no_identity_prompt_ignored(req, redirect_uri, suspend) == suspend

\* no_identity that never hands the authentication on.
no_identity_never_suspends(req, redirect_uri, suspend) ==
    [kind |-> "error", calls |-> <<"pick_authn_method", "authenticated_as">>,
     response |-> ErrorResponse([error |-> "login_required",
                                 redirect_uri |-> redirect_uri,
                                 return_type |-> req["response_type"]])]

\* Lines 448-455: there is no identity.  With prompt=none the answer is
\* login_required, else the descriptor of the authentication to run.
no_identity(req, redirect_uri, suspend) ==
    IF "prompt" \in DOMAIN req /\ "none" \in req["prompt"]
    THEN [kind |-> "error", calls |-> <<"pick_authn_method", "authenticated_as">>,
          response |-> ErrorResponse([error |-> "login_required",
                                      redirect_uri |-> redirect_uri,
                                      return_type |-> req["response_type"]])]
    ELSE suspend

\* someone_else that lets every requested subject pass.
someone_else_never(store, kw, user) == FALSE

\* Lines 461-464: the request names a subject whose last session is of
\* another user than the one authenticated.
someone_else(store, kw, user) ==
    /\ "req_user" \in DOMAIN kw
    /\ LET sids == get_sids_by_sub(store, kw["req_user"])
       IN  /\ sids # {}
           /\ user # store[LastSid(sids)].authn_event.uid

\* Authorization.setup_auth.  env holds what the collaborators answer:
\* the broker (default_pick, baseline), authenticated_as (lookup) and
\* authn.done (done).
setup_auth(store, req, redirect_uri, kw, env) ==
    LET picked == pick_authn_method(req, redirect_uri, env)
    IN
    IF picked.kind # "tuple"
    \* line 418 unpacks the three-field error response into two names
    THEN [kind |-> "exception", exc |-> "ValueError", calls |-> <<"pick_authn_method">>]
    ELSE
    LET authn == picked.body.method
        authn_class_ref == picked.body.acr
        identity == IF env.lookup.raised # "None" THEN "None" ELSE env.lookup.uid
        authn_args == authn_args_gather(req, authn_class_ref, kw)
        suspend == [kind |-> "suspend", function |-> authn, args |-> authn_args,
                    calls |-> <<"pick_authn_method", "authenticated_as">>]
        prompt_none == "prompt" \in DOMAIN req /\ "none" \in req["prompt"]
    IN
    IF identity = "None"
    THEN no_identity(req, redirect_uri, suspend)
    ELSE IF re_authenticate(req, env.done)
    THEN suspend
    ELSE     IF someone_else(store, kw, identity)
             THEN IF prompt_none
                  THEN [kind |-> "error",
                        calls |-> <<"pick_authn_method", "authenticated_as">>,
                        response |-> ErrorResponse([error |-> "login_required",
                                                    redirect_uri |-> redirect_uri])]
                  ELSE suspend
             ELSE [kind |-> "authn_event",
                   calls |-> <<"pick_authn_method", "authenticated_as">>,
                   authn |-> authn, authn_class_ref |-> authn_class_ref,
                   authn_event |-> [uid |-> identity, authn_info |-> authn_class_ref],
                   user |-> identity]

-----------------------------------------------------------------------------
(* Session store operations (the store itself is an external collaborator) *)

\* sdb.create_authz_session(authn_event, request) followed by
\* sdb.do_sub(sid, ''): a new session under a fresh key, with its
\* authorization code issued.
\* NewSid that gives every new session the key after the first store's last.
NewSid_reused(store) == LastSid(DOMAIN Sdb0) + 1

NewSid(store) == LastSid(DOMAIN store) + 1

create_authz_session(store, authn_event, req) ==
    LET sid == NewSid(store)
    IN  (sid :> [ authn_event |-> authn_event,
                  sub |-> Sub(authn_event.uid),
                  client_id |-> req["client_id"],
                  code |-> [tag |-> "code", sid |-> sid],
                  permission |-> None,
                  access_token |-> None, token_type |-> "", id_token |-> None,
                  revoked |-> FALSE ]) @@ store

\* sdb.upgrade_to_token(issue_refresh=False, key=sid): the session gets an
\* access token; the updated session is what the call returns.
upgrade_to_token(store, sid) ==
    [store EXCEPT ![sid].access_token = [tag |-> "access_token", sid |-> sid],
                  ![sid].token_type = "Bearer"]

\* The keys of an upgraded session that AuthorizationResponse.parameters()
\* recognises: those that may be None, and those that never are.
NullableParams == {"code", "access_token", "id_token"}
PlainParams == {"token_type", "client_id"}

-----------------------------------------------------------------------------
(* Response assembly: create_authn_response *)

\* d with key k set to v.
Put(d, k, v) == (k :> v) @@ d

\* copy_token_fields that copies the None fields too.
copy_token_fields_with_none(aresp, _dic) ==
    [k \in NullableParams \cup PlainParams |-> _dic[k]] @@ aresp

\* copy_token_fields that copies nothing once the session holds an id_token.
copy_token_fields_once(aresp, _dic) ==
    IF _dic["id_token"].tag # "None" THEN aresp
    ELSE LET keys == {k \in NullableParams : _dic[k].tag # "None"} \cup PlainParams
         IN  [k \in keys |-> _dic[k]] @@ aresp

\* Lines 225-227: copy every recognised, non-None field of _dic into aresp.
copy_token_fields(aresp, _dic) ==
    LET keys == {k \in NullableParams : _dic[k].tag # "None"} \cup PlainParams
    IN  [k \in keys |-> _dic[k]] @@ aresp

\* void_code that leaves the code of the session in place.
void_code_kept(store, sid) == store

\* Line 217: sdb.update(sid, code=None).
void_code(store, sid) == [store EXCEPT ![sid].code = None]

\* hint_args that always gives the code and the access token.
hint_args_both(rtype, _code, _access_token) ==
    [code |-> _code, access_token |-> _access_token]

\* Lines 248-254: the hint the signer gets for the c_hash / at_hash claims.
hint_args(rtype, _code, _access_token) ==
    IF {"code", "id_token", "token"} \subseteq rtype
    THEN [code |-> _code, access_token |-> _access_token]
    ELSE IF {"code", "id_token"} \subseteq rtype
    THEN [code |-> _code]
    ELSE IF {"id_token", "token"} \subseteq rtype
    THEN [access_token |-> _access_token]
    ELSE EmptyDict

\* fragment_encoding that never chooses the query.
fragment_encoding_always(rtype) == TRUE

\* Lines 208-211: the response goes into the query only when the one
\* response type asked for is code.
fragment_encoding(rtype) == ~(Cardinality(rtype) = 1 /\ "code" \in rtype)

\* signing_caught with NoSuitableSigningKeys left out of the except clause.
signing_caught_jwe_only(signer) == signer = "JWEException"

\* Line 262: the exceptions of the signer that are caught.
signing_caught(signer) == signer \in {"JWEException", "NoSuitableSigningKeys"}

\* store_id_token that leaves the session as it was.
store_id_token_skipped(store, sid, id_token) == store

\* Line 269: the id_token is kept in the session.
store_id_token(store, sid, id_token) == [store EXCEPT ![sid].id_token = id_token]

\* not_handled that reports nothing.
not_handled_none(rtype, handled_response_type) == {}

\* Line 272: the response types asked for that were not handled.
not_handled(rtype, handled_response_type) == rtype \ handled_response_type

\* create_authn_response(srv_info, request, sid).  signer is what
\* sign_encrypt_id_token does: "ok", or the exception it raises.  Gives what
\* the function hands back (kind "info", "error", "exception" for
\* UnSupported, "raised" for an exception of the signer that is not caught),
\* the session store it leaves, and the store calls it made.
create_authn_response(store, req, sid, signer) ==
    LET aresp0 == IF "state" \in DOMAIN req
                  THEN "state" :> req["state"] ELSE EmptyDict
    IN
    IF req["response_type"] = <<"none">>
    THEN [kind |-> "info", store |-> store, calls |-> <<>>,
          body |-> [response_args |-> aresp0, fragment_enc |-> FALSE]]
    ELSE
    LET aresp1 == IF "scope" \in DOMAIN req
                  THEN Put(aresp0, "scope", req["scope"]) ELSE aresp0
        rtype == Range(req["response_type"])
        fragment_enc == fragment_encoding(rtype)
        has_code == "code" \in rtype
        aresp2 == IF has_code THEN Put(aresp1, "code", store[sid].code) ELSE aresp1
        store2 == IF has_code THEN store ELSE void_code(store, sid)
        _code == IF has_code THEN store[sid].code ELSE None
        has_token == "token" \in rtype
        store3 == IF has_token THEN upgrade_to_token(store2, sid) ELSE store2
        aresp3 == IF has_token THEN copy_token_fields(aresp2, store3[sid]) ELSE aresp2
        _access_token == IF "access_token" \in DOMAIN aresp3
                         THEN aresp3["access_token"] ELSE None
        has_id_token == "id_token" \in rtype
        id_token == [tag |-> "id_token", sid |-> sid, aud |-> req["client_id"],
                     hint |-> hint_args(rtype, _code, _access_token)]
        aresp4 == IF has_id_token THEN Put(aresp3, "id_token", id_token) ELSE aresp3
        store4 == IF has_id_token
                  THEN store_id_token(store3, sid, id_token) ELSE store3
        handled == (IF has_code THEN {"code"} ELSE {}) \cup
                   (IF has_token THEN {"token"} ELSE {}) \cup
                   (IF has_id_token THEN {"id_token"} ELSE {})
        calls == (IF has_code THEN <<>> ELSE <<"sdb.update(code=None)">>) \o
                 (IF has_token THEN <<"sdb.upgrade_to_token(issue_refresh=False)">> ELSE <<>>)
    IN
    IF has_id_token /\ signer # "ok" /\ ~signing_caught(signer)
    THEN [kind |-> "raised", store |-> store3,
          calls |-> calls \o <<"sign_encrypt_id_token">>,
          body |-> [exception |-> signer]]
    ELSE IF has_id_token /\ signer # "ok"
    THEN [kind |-> "error", store |-> store3,
          calls |-> calls \o <<"sign_encrypt_id_token">>,
          body |-> [error |-> "invalid_request",
                    error_description |-> "Could not sign/encrypt id_token"]]
    ELSE IF not_handled(rtype, handled) # {}
    THEN [kind |-> "exception", store |-> store4,
          calls |-> calls \o (IF has_id_token
                              THEN <<"sign_encrypt_id_token", "_sinfo[id_token]">>
                              ELSE <<>>),
          body |-> [exception |-> "UnSupported",
                    not_handled |-> not_handled(rtype, handled)]]
    ELSE [kind |-> "info", store |-> store4,
          calls |-> calls \o (IF has_id_token
                              THEN <<"sign_encrypt_id_token", "_sinfo[id_token]">>
                              ELSE <<>>),
          body |-> [response_args |-> aresp4, fragment_enc |-> fragment_enc]]

-----------------------------------------------------------------------------
(* process_request up to the authentication decision *)

\* The keyword arguments process_request may get besides the cookie: a
\* requested subject with an earlier session (subB), or without (subZ).
ProcessKwargs == Opt("req_user", {"subB", "subZ"})

\* What the broker may answer when the request names no acr.
BrokerAnswers(req) ==
    IF _acr_claims(req).tag = "list" /\ _acr_claims(req).l # <<>>
    THEN {[default_pick |-> NoMethod, baseline |-> 0]}
    ELSE {[default_pick |-> Broker[2], baseline |-> 0]} \cup
         {[default_pick |-> NoMethod, baseline |-> b] : b \in {2, 3}}

\* How authenticated_as answered: the exception it raised, "None" for no
\* identity, "identity" for an identity.
Answer(lookup) ==
    IF lookup.raised # "None" THEN lookup.raised
    ELSE IF lookup.uid = "None" THEN "None" ELSE "identity"

\* process_request, lines 597-613: look the client up, run setup_auth, and
\* hand back its error response, or invoke the authentication method it
\* chose, or go on as authenticated.
SetupAuth ==
    /\ pc = "RequestValidated"
    /\ \E kw \in ProcessKwargs,
          lookup \in LookupOutcomes, done \in BOOLEAN,
          broker \in BrokerAnswers(request) :
         /\ done => (lookup.uid # "None" /\ "prompt" \in DOMAIN request
                        /\ "login" \in request["prompt"])
         /\ kwargs' = kw
         /\ IF request["client_id"] \notin DOMAIN cdb
            THEN /\ result' = Raised("KeyError")
                 /\ pc' = "Raised"
                 /\ local' = [local EXCEPT !.cause = "KeyError"]
                 /\ log' = log
            ELSE LET req == request
                     env == [default_pick |-> broker.default_pick,
                             baseline |-> broker.baseline,
                             lookup |-> lookup, done |-> done]
                     info == setup_auth(sdb, req, request["redirect_uri"], kw, env)
                 IN  CASE info.kind = "exception" ->
                            /\ result' = Raised(info.exc)
                            /\ pc' = "Raised"
                            /\ local' = [local EXCEPT !.cause = info.exc]
                            /\ log' = log \o info.calls
                       [] info.kind = "error" ->
                            /\ result' = info.response
                            /\ pc' = "Error"
                            /\ local' = [local EXCEPT !.cause = info.response.body.error,
                                                       !.lookup = Answer(lookup),
                                                       !.identity = lookup.uid,
                                                       !.done = done]
                            /\ log' = log \o info.calls
                       [] info.kind = "suspend" ->
                            /\ result' = [kind |-> "authn",
                                          body |-> [function |-> info.function,
                                                    args |-> info.args]]
                            /\ pc' = "AuthnPending"
                            /\ local' = [local EXCEPT !.lookup = Answer(lookup),
                                                       !.identity = lookup.uid,
                                                       !.done = done]
                            /\ log' = log \o info.calls \o <<"authenticate">>
                       [] info.kind = "authn_event" ->
                            /\ result' = NoResult
                            /\ pc' = "Authenticated"
                            /\ local' = [local EXCEPT
                                            !.lookup = Answer(lookup),
                                            !.identity = lookup.uid,
                                            !.done = done,
                                            !.info = [authn_event |-> info.authn_event,
                                                      user |-> info.user],
                                            !.user = info.user]
                            /\ log' = log \o info.calls
    /\ UNCHANGED <<conf, cdb, sdb, request>>

\* process_request, line 617: setup_session.
SetupSession ==
    /\ pc = "Authenticated"
    /\ sdb' = create_authz_session(sdb, local.info.authn_event, request)
    /\ local' = [local EXCEPT !.sid = NewSid(sdb)]
    /\ kwargs' = EmptyDict
    /\ pc' = "SessionCreated"
    /\ log' = log \o <<"sdb.create_authz_session">>
    /\ UNCHANGED <<conf, cdb, request, result>>

-----------------------------------------------------------------------------
(* After authentication: post_authn and authz_part2 *)

\* inputs(form_args): one hidden input element per (name, value) item.
inputs(form_args) ==
    {[type |-> "hidden", name |-> name, value |-> form_args[name]] :
        name \in DOMAIN form_args}

\* Authorization.response_mode(request, **kwargs): the kwargs handed back,
\* or the exception raised.
response_mode(req, kw) ==
    LET resp_mode == req["response_mode"]
    IN  IF resp_mode = "form_post"
        THEN IF "redirect_uri" \notin DOMAIN kw
             THEN [raised |-> "KeyError", msg |-> "redirect_uri", kwargs |-> kw]
             ELSE [raised |-> "None", msg |-> "",
                   kwargs |-> Put(kw, "response_args",
                                  [tag |-> "html", onload |-> "submit", method |-> "post",
                                   action |-> kw["redirect_uri"],
                                   inputs |-> inputs(kw["response_args"])])]
        ELSE IF resp_mode = "fragment" /\ ~kw["fragment_enc"]
        THEN [raised |-> "InvalidRequest", msg |-> "wrong response_mode", kwargs |-> kw]
        ELSE IF resp_mode = "query" /\ kw["fragment_enc"]
        THEN [raised |-> "InvalidRequest", msg |-> "wrong response_mode", kwargs |-> kw]
        ELSE [raised |-> "InvalidRequest", msg |-> "Unknown response_mode", kwargs |-> kw]

\* EndWithError that hands the error to the next step instead of ending.
EndWithError_goes_on(fields, cause) ==
    /\ result' = ErrorResponse(fields)
    /\ pc' = "RevokedChecked"
    /\ local' = [local EXCEPT !.cause = cause]

\* The flow ends with an error response, or with an exception.
EndWithError(fields, cause) ==
    /\ result' = ErrorResponse(fields)
    /\ pc' = "Error"
    /\ local' = [local EXCEPT !.cause = cause]

EndWithException(exc) ==
    /\ result' = Raised(exc)
    /\ pc' = "Raised"
    /\ local' = [local EXCEPT !.cause = exc]

\* post_authn, lines 514-519: the authorization hook and the grant; an
\* exception of the hook is raised again.
Authorize ==
    /\ pc = "SessionCreated"
    /\ \E authz_ok \in BOOLEAN :
         IF authz_ok
         THEN /\ sdb' = [sdb EXCEPT ![local.sid].permission =
                            [tag |-> "permission", user |-> local.user]]
              /\ pc' = "Authorized"
              /\ log' = log \o <<"authz", "sdb.update(permission)">>
              /\ UNCHANGED <<result, local>>
         ELSE /\ EndWithException("AuthzError")
              /\ log' = log \o <<"authz">>
              /\ UNCHANGED sdb
    /\ UNCHANGED <<conf, cdb, request, kwargs>>

\* RevokedCheck that reads the flag and goes on whatever it says.
RevokedCheck_ignored ==
    /\ pc = "Authorized"
    /\ pc' = "RevokedChecked"
    /\ log' = log \o <<"sdb.is_session_revoked">>
    /\ UNCHANGED <<conf, cdb, sdb, request, kwargs, result, local>>

\* post_authn, lines 523-525: a revoked session ends the flow.
RevokedCheck ==
    /\ pc = "Authorized"
    /\ IF sdb[local.sid].revoked
       THEN EndWithError([error |-> "access_denied",
                          error_description |-> "Session is revoked"], "revoked")
       ELSE /\ pc' = "RevokedChecked"
            /\ UNCHANGED <<result, local>>
    /\ log' = log \o <<"sdb.is_session_revoked">>
    /\ UNCHANGED <<conf, cdb, sdb, request, kwargs>>

\* post_authn, lines 527-535: create_authn_response.
AssembleResponse ==
    /\ pc = "RevokedChecked"
    /\ \E signer \in {"ok", "JWEException", "NoSuitableSigningKeys"} :
         LET out == create_authn_response(sdb, request, local.sid, signer)
         IN  /\ signer # "ok" => "id_token" \in Range(request["response_type"])
             /\ sdb' = out.store
             /\ log' = log \o <<"create_authn_response">> \o out.calls
             /\ CASE out.kind = "exception" ->
                       /\ result' = ErrorResponse(
                              [error |-> "unsupported_response_type",
                               error_description |-> out.body.not_handled])
                       /\ pc' = "Error"
                       /\ local' = [local EXCEPT !.cause = "UnSupported",
                                                  !.signer = signer]
                  [] out.kind = "raised" ->
                       /\ result' = Raised(out.body.exception)
                       /\ pc' = "Raised"
                       /\ local' = [local EXCEPT !.cause = out.body.exception,
                                                  !.signer = signer]
                  [] out.kind = "error" ->
                       /\ result' = ErrorResponse(out.body)
                       /\ pc' = "Error"
                       /\ local' = [local EXCEPT !.cause = signer,
                                                  !.signer = signer]
                  [] out.kind = "info" ->
                       /\ local' = [local EXCEPT !.response_info = out.body,
                                                  !.signer = signer]
                       /\ pc' = "Assembled"
                       /\ UNCHANGED result
    /\ UNCHANGED <<conf, cdb, request, kwargs>>

\* post_authn_uri_error addressed to the request's redirect URI, as the
\* error responses of setup_auth are.
post_authn_uri_error_redirected(err) ==
    [error |-> "invalid_request", error_description |-> err,
     redirect_uri |-> request["redirect_uri"]]

\* Lines 540-541: the error response for a redirect URI that failed.
post_authn_uri_error(err) ==
    [error |-> "invalid_request", error_description |-> err]

\* post_authn, lines 537-543: the redirect URI is resolved again.
ReResolve ==
    /\ pc = "Assembled"
    /\ LET r == get_redirect_uri(cdb, request)
       IN  IF r.raised \in {"RedirectURIError", "ParameterError"}
           THEN EndWithError(post_authn_uri_error(r.raised), r.raised)
           ELSE IF r.raised # "None"
           THEN EndWithException(r.raised)
           ELSE /\ local' = [local EXCEPT !.response_info =
                                Put(local.response_info, "return_uri", r.uri)]
                /\ pc' = "ReResolved"
                /\ UNCHANGED result
    /\ log' = log \o <<"get_redirect_uri">>
    /\ UNCHANGED <<conf, cdb, sdb, request, kwargs>>

\* post_authn, lines 547-566: aresp_check (which accepts every response),
\* make_headers, and the response mode the request asks for.
EncodeResponse ==
    /\ pc = "ReResolved"
    /\ LET headers == <<[cookie |-> local.user]>>
       IN  IF "response_mode" \in DOMAIN request
           THEN LET rm == response_mode(request, local.response_info)
                IN  IF rm.raised = "InvalidRequest"
                    THEN EndWithError([error |-> "invalid_request",
                                       error_description |-> rm.msg], "InvalidRequest")
                    ELSE IF rm.raised # "None"
                    THEN EndWithException(rm.raised)
                    ELSE /\ local' = [local EXCEPT !.response_info =
                                         Put(rm.kwargs, "http_headers", headers)]
                         /\ pc' = "ModeEncoded"
                         /\ UNCHANGED result
           ELSE /\ local' = [local EXCEPT !.response_info =
                                Put(local.response_info, "http_headers", headers)]
                /\ pc' = "ModeEncoded"
                /\ UNCHANGED result
    /\ log' = log \o <<"aresp_check", "make_headers">> \o
                  (IF "response_mode" \in DOMAIN request
                   THEN <<"response_mode">> ELSE <<>>)
    /\ UNCHANGED <<conf, cdb, sdb, request, kwargs>>

\* Lines 584-585: iss and client_id are set on the response parameters.
mix_up(args, req) ==
    Put(Put(args, "iss", Issuer), "client_id", req["client_id"])

\* authz_part2, lines 583-587: mix-up mitigation, and the response is
\* handed back through process_request.
MixUp ==
    /\ pc = "ModeEncoded"
    /\ LET args == local.response_info["response_args"]
       IN  IF "tag" \in DOMAIN args
           \* a rendered form is text, which has no item assignment
           THEN EndWithException("TypeError")
           ELSE /\ result' = [kind |-> "payload",
                              body |-> Put(local.response_info, "response_args",
                                           mix_up(args, request))]
                /\ pc' = "Delivered"
                /\ local' = local
    /\ log' = log \o <<"mix_up">>
    /\ UNCHANGED <<conf, cdb, sdb, request, kwargs>>

\* The session of this flow is revoked by someone else (a logout, an
\* administrator) before post_authn checks it.
RevokeSession ==
    /\ pc \in {"SessionCreated", "Authorized"}
    /\ ~sdb[local.sid].revoked
    /\ sdb' = [sdb EXCEPT ![local.sid].revoked = TRUE]
    /\ UNCHANGED <<conf, cdb, request, kwargs, pc, result, local, log>>

Next ==
    \/ \E client_id \in ClientIds : PostParseRequest(client_id)
    \/ SetupAuth
    \/ SetupSession
    \/ Authorize
    \/ RevokedCheck
    \/ AssembleResponse
    \/ ReResolve
    \/ EncodeResponse
    \/ MixUp
    \/ RevokeSession
    \/ ClientDbChange

Spec == Init /\ [][Next]_vars

-----------------------------------------------------------------------------
(* The redirect-URI validator on its own *)

\* Longest list of registered redirect URIs of the validated client.
MaxEntries == 2

\* Request URIs: a base, then possibly a query, then possibly a fragment.
VerifyBases == { U_a, U_b, <<"%", "6", "1">> }

VerifyQueries ==
    { <<>>,
      <<"?">>,
      <<"?", "k", "=", "v">>,
      <<"?", "k", "=", "v", "&", "k", "=", "w">>,
      <<"?", "k", "=", "w", "&", "k", "=", "v">>,
      <<"?", "j", "=", "v">>,
      <<"?", "k", "=">>,
      <<"?", "k", "=", "v", "&", "j", "=", "v">> }

VerifyFragments ==
    { <<>>, <<"#">>, <<"#", "a">>, <<"%", "2", "3", "a">> }

VerifyURIs ==
    { b \o q \o f : b \in VerifyBases, q \in VerifyQueries, f \in VerifyFragments }

\* Client databases holding the one client c1, with up to MaxEntries
\* registered redirect URIs in any order.
VerifyCdbs ==
    { "c1" :> ("redirect_uris" :> uris) :
        uris \in UNION {[1..n -> RegisteredEntries] : n \in 0..MaxEntries} }

VerifyInit ==
    /\ cdb \in VerifyCdbs
    /\ sdb = Sdb0
    /\ request \in { [client_id |-> c, redirect_uri |-> u, response_type |-> <<"code">>] :
                        c \in {"c1", "cX"}, u \in VerifyURIs }
    /\ kwargs = EmptyDict
    /\ conf = EmptyDict
    /\ pc = "verify"
    /\ result = NoResult
    /\ local = NoLocals
    /\ log = <<>>

\* verify_redirect_uri(srv_info, request) is called.
VerifyRedirectUri ==
    /\ pc = "verify"
    /\ result' = [kind |-> "verified",
                  body |-> [raised |-> verify_redirect_uri(cdb, request)]]
    /\ pc' = "verified"
    /\ UNCHANGED <<conf, cdb, sdb, request, kwargs, local, log>>

VerifyNext == VerifyRedirectUri

SpecVerify == VerifyInit /\ [][VerifyNext]_vars

-----------------------------------------------------------------------------
(* create_authn_response on its own, called more than once on a session *)

\* How often create_authn_response is called on the session.
MaxCalls == 2

\* The requests create_authn_response is handed: any response types, with
\* or without state and scope.
AssembleRequests ==
    { ("client_id" :> c) @@ ("response_type" :> rt) @@ st @@ sc :
        c \in {"c1", "c2"}, rt \in ResponseTypes,
        st \in Opt("state", {"s1"}),
        sc \in Opt("scope", {<<"openid">>}) }

\* The store when post_authn calls create_authn_response: the session of
\* this flow was created by setup_session and holds the permission.
AssembleStore(req) ==
    LET store == create_authz_session(Sdb0, [uid |-> "bob", authn_info |-> "acr2"], req)
    IN  [store EXCEPT ![NewSid(Sdb0)].permission = [tag |-> "permission", user |-> "bob"]]

AssembleInit ==
    /\ cdb = Cdb0
    /\ request \in AssembleRequests
    /\ sdb = AssembleStore(request)
    /\ kwargs = EmptyDict
    /\ conf = EmptyDict
    /\ pc = "assemble"
    /\ result = [kind |-> "assembled", body |-> [outs |-> <<>>]]
    /\ local = [NoLocals EXCEPT !.sid = NewSid(Sdb0), !.user = "bob"]
    /\ log = <<>>

\* create_authn_response(srv_info, request, sid) is called; what it hands
\* back, the calls it made, and the session before and after are kept.
CreateAuthnResponse ==
    /\ pc = "assemble"
    /\ Len(result.body.outs) < MaxCalls
    /\ \E signer \in {"ok", "JWEException", "NoSuitableSigningKeys"} :
         LET out == create_authn_response(sdb, request, local.sid, signer)
         IN  /\ signer # "ok" => "id_token" \in Range(request["response_type"])
             /\ sdb' = out.store
             /\ log' = log \o <<"create_authn_response">> \o out.calls
             /\ result' = [result EXCEPT !.body.outs =
                              Append(@, [kind |-> out.kind, body |-> out.body,
                                         calls |-> out.calls,
                                         before |-> sdb[local.sid],
                                         session |-> out.store[local.sid]])]
    /\ UNCHANGED <<conf, cdb, request, kwargs, pc, local>>

AssembleNext == CreateAuthnResponse

SpecAssemble == AssembleInit /\ [][AssembleNext]_vars

-----------------------------------------------------------------------------
(* Provider metadata: package_capabilities and create_providerinfo *)

\* A capability value: a bool, a str, a list of str, or the list(set) the
\* negotiation makes, whose order is not determined.
Bool(b) == [tag |-> "bool", b |-> b]
List(l) == [tag |-> "list", l |-> l]
ListOfSet(sv) == [tag |-> "listof", s |-> sv]

\* The entries of a list value, or of a str given where a list is expected
\* (lines 217-220).
set_of(val) ==
    CASE val.tag = "str" -> {val.s}
      [] val.tag = "list" -> Range(val.l)
      [] val.tag = "listof" -> val.s

RESPONSE_TYPES_SUPPORTED ==
    << <<"code">>, <<"token">>, <<"id_token">>, <<"code", "token">>,
       <<"code", "id_token">>, <<"id_token", "token">>,
       <<"code", "token", "id_token">>, <<"none">> >>

\* The module-level table CAPABILITIES (the response types are kept as
\* lists of words, the str of each being its words joined by blanks).
CAPABILITIES ==
    [ response_types_supported |-> List(RESPONSE_TYPES_SUPPORTED),
      token_endpoint_auth_methods_supported |->
          List(<<"client_secret_post", "client_secret_basic",
                 "client_secret_jwt", "private_key_jwt">>),
      response_modes_supported |-> List(<<"query", "fragment", "form_post">>),
      subject_types_supported |-> List(<<"public", "pairwise">>),
      grant_types_supported |->
          List(<<"authorization_code", "implicit",
                 "urn:ietf:params:oauth:grant-type:jwt-bearer", "refresh_token">>),
      claim_types_supported |-> List(<<"normal", "aggregated", "distributed">>),
      claims_parameter_supported |-> Bool(TRUE),
      request_parameter_supported |-> Bool(TRUE),
      request_uri_parameter_supported |-> Bool(TRUE) ]

\* package_capabilities: the table, the issuer and the version.  (The
\* algorithm lists come from the JOSE libraries and the claims and scopes
\* from the message library; no configuration of this model names them.)
package_capabilities(issuer) ==
    ("issuer" :> Str(issuer)) @@ ("version" :> Str("3.0")) @@ CAPABILITIES

\* Lines 207-212 (SrvInfo), 266-271 (EndpointContext): a bool capability.
negotiate_bool(allowed, val) ==
    IF allowed.b = FALSE
    THEN IF val = Bool(TRUE)
         THEN [ok |-> FALSE, set |-> FALSE, value |-> Bool(TRUE)]
         ELSE [ok |-> TRUE, set |-> FALSE, value |-> allowed]
    ELSE [ok |-> TRUE, set |-> TRUE, value |-> val]

\* Lines 213-215, 272-274: a str capability.
negotiate_str(allowed, val) ==
    IF val # allowed
    THEN [ok |-> FALSE, set |-> FALSE, value |-> val]
    ELSE [ok |-> TRUE, set |-> FALSE, value |-> allowed]

\* negotiate_list that reports every configured entry of a failing key.
negotiate_list_reports_all(allowed, val) ==
    LET sv == set_of(val)
        sa == set_of(allowed)
    IN  IF (sv \cap sa) = sv
        THEN [ok |-> TRUE, set |-> TRUE, value |-> ListOfSet(sv)]
        ELSE [ok |-> FALSE, set |-> FALSE, value |-> ListOfSet(sv)]

\* negotiate_list that only accepts a narrowing of the supported values.
negotiate_list_narrowing_only(allowed, val) ==
    LET sv == set_of(val)
        sa == set_of(allowed)
    IN  IF (sv \cap sa) = sv /\ sv # sa
        THEN [ok |-> TRUE, set |-> TRUE, value |-> ListOfSet(sv)]
        ELSE [ok |-> FALSE, set |-> FALSE, value |-> ListOfSet(sv \ sa)]

\* Lines 216-227, 275-286: a list capability.  ok: the key is supported;
\* value: what is advertised, or what not_supported names.
negotiate_list(allowed, val) ==
    LET sv == set_of(val)
        sa == set_of(allowed)
    IN  IF (sv \cap sa) = sv
        THEN [ok |-> TRUE, set |-> TRUE, value |-> ListOfSet(sv)]
        ELSE [ok |-> FALSE, set |-> FALSE, value |-> ListOfSet(sv \ sa)]

\* Lines 201-227, 260-286: one pass of the loop over the configuration.
negotiate(_pinfo, key, val) ==
    IF key \notin DOMAIN _pinfo
    THEN [ok |-> TRUE, set |-> TRUE, value |-> val]
    ELSE CASE _pinfo[key].tag = "bool" -> negotiate_bool(_pinfo[key], val)
           [] _pinfo[key].tag = "str" -> negotiate_str(_pinfo[key], val)
           [] OTHER -> negotiate_list(_pinfo[key], val)

\* Lines 199-233, 258-292: the negotiated metadata, or the features that
\* the ConfigurationError names.
negotiated(capabilities, issuer) ==
    LET _pinfo == package_capabilities(issuer)
        out == [key \in DOMAIN capabilities |-> negotiate(_pinfo, key, capabilities[key])]
        failed == {key \in DOMAIN capabilities : ~out[key].ok}
        changed == {key \in DOMAIN capabilities : out[key].set}
    IN  IF failed # {}
        THEN [raised |-> "ConfigurationError",
              not_supported |-> [key \in failed |-> out[key].value],
              _pinfo |-> EmptyDict]
        ELSE [raised |-> "None", not_supported |-> EmptyDict,
              _pinfo |-> [key \in changed |-> out[key].value] @@ _pinfo]

\* URLs and paths of the metadata are sequences of pieces, "/" being a
\* piece of its own: <<"https://example.com", "/", "op">>.
endswith_slash(url) == url # <<>> /\ url[Len(url)] = "/"
startswith_slash(path) == path # <<>> /\ path[1] = "/"

\* urllib.parse.urljoin(base, path) for a relative path without dot
\* segments: the path replaces what follows the last "/" of the base path.
urljoin(base, path) ==
    LET cut == LastIndex(base, "/", Len(base))
    IN  IF cut = 0 THEN base \o <<"/">> \o path
        ELSE SubSeq(base, 1, cut) \o path

\* add_path(url, path) of endpoint_context.py.
add_path(url, path) ==
    IF endswith_slash(url)
    THEN IF startswith_slash(path) THEN url \o Tail(path) ELSE url \o path
    ELSE IF startswith_slash(path) THEN url \o path ELSE url \o <<"/">> \o path

\* SrvInfo.create_providerinfo, lines 238-244: an endpoint URL.
srv_info_endpoint(base_url, path) ==
    LET baseurl == IF ~endswith_slash(base_url) THEN base_url \o <<"/">> ELSE base_url
    IN  urljoin(baseurl, path)

\* EndpointContext.__init__, lines 124-128: '{}/{}'.format(issuer, path).
endpoint_context_jwks_uri(issuer, jwks) ==
    IF "public_path" \in DOMAIN jwks
    THEN issuer \o <<"/">> \o jwks["public_path"]
    ELSE <<>>

\* '{}_endpoint'.format(name).
endpoint_key(name) ==
    CASE name = "authorization" -> "authorization_endpoint"
      [] name = "token" -> "token_endpoint"
      [] name = "userinfo" -> "userinfo_endpoint"
      [] name = "registration" -> "registration_endpoint"

\* SrvInfo.create_providerinfo(capabilities), with the attributes __init__
\* took from the configuration.
srv_info_providerinfo(cf) ==
    LET neg == negotiated(cf.capabilities, cf.issuer)
        jwks == IF cf.jwks_uri # <<>> /\ cf.keyjar
                THEN "jwks_uri" :> Str(cf.jwks_uri) ELSE EmptyDict
        endpoints == [key \in {endpoint_key(n) : n \in DOMAIN cf.endpoint} |->
                         LET n == CHOOSE n \in DOMAIN cf.endpoint : endpoint_key(n) = key
                         IN  Str(srv_info_endpoint(cf.base_url, cf.endpoint[n]))]
    IN  IF neg.raised # "None" THEN neg
        ELSE [neg EXCEPT !._pinfo = endpoints @@ jwks @@ neg._pinfo]

\* instance.endpoint_path as build_endpoints sets it: the issuer joined
\* with the configured path.
endpoint_path(issuer, path) == add_path(issuer, path)

\* EndpointContext.__init__ lines 124-146 and create_providerinfo: the
\* endpoints are added to the configured capabilities before negotiation.
endpoint_context_providerinfo(cf) ==
    LET jwks_uri == endpoint_context_jwks_uri(cf.issuer, cf.jwks)
        paths == [key \in {endpoint_key(n) : n \in DOMAIN cf.endpoint} |->
                     LET n == CHOOSE n \in DOMAIN cf.endpoint : endpoint_key(n) = key
                     IN  Str(endpoint_path(cf.issuer, cf.endpoint[n]))]
        _cap == paths @@ cf.capabilities
        neg == negotiated(_cap, cf.issuer)
        jwks == IF jwks_uri # <<>> /\ cf.keyjar
                THEN "jwks_uri" :> Str(jwks_uri) ELSE EmptyDict
    IN  IF neg.raised # "None" THEN neg
        ELSE [neg EXCEPT !._pinfo = paths @@ jwks @@ neg._pinfo]

\* Configured values of the capabilities the configurations of this model
\* name: fewer values than supported, all of them, one or two that are not
\* supported, a str where a list is expected, a new key.
ConfiguredCapabilities ==
    { rm @@ st @@ cp @@ v @@ fl :
        rm \in Opt("response_modes_supported",
                   { List(<<"query">>), List(<<"query", "fragment", "form_post">>),
                     List(<<"query", "web_message">>), List(<<"jwt", "web_message">>),
                     List(<<>>), Str("fragment"), Str("jwt") }),
        st \in Opt("subject_types_supported",
                   { List(<<"public", "pairwise">>), List(<<"pairwise", "pairwise">>),
                     List(<<"public", "ephemeral">>) }),
        cp \in Opt("claims_parameter_supported", {Bool(TRUE), Bool(FALSE)}),
        v \in Opt("version", {Str("3.0"), Str("2.0")}),
        fl \in Opt("frontchannel_logout_supported", {Bool(TRUE)}) }
    \cup {CAPABILITIES}

\* Issuers and base URLs, with and without a path and a trailing "/".
BaseURLs ==
    { <<"https://example.com">>, <<"https://example.com", "/">>,
      <<"https://example.com", "/", "op">>, <<"https://example.com", "/", "op", "/">> }

\* Relative paths of endpoints and of the key set.
EndpointPaths ==
    { ("token" :> <<"token">>),
      ("token" :> <<"oidc", "/", "token">>) @@ ("authorization" :> <<"authz">>) }

\* The configurations a server is started with.
Confs ==
    { [ kind |-> k, issuer |-> b, base_url |-> b, capabilities |-> cap,
        jwks_uri |-> IF k = "SrvInfo" THEN j ELSE <<>>,
        jwks |-> IF k = "SrvInfo" \/ j = <<>> THEN EmptyDict
                 ELSE [public_path |-> <<"jwks.json">>],
        keyjar |-> TRUE, endpoint |-> e ] :
        k \in {"SrvInfo", "EndpointContext"}, b \in BaseURLs,
        cap \in ConfiguredCapabilities,
        j \in {<<>>, <<"https://example.com", "/", "jwks.json">>},
        e \in {EmptyDict} \cup EndpointPaths }

NegotiateInit ==
    /\ conf \in Confs
    /\ cdb = EmptyDict
    /\ sdb = EmptyDict
    /\ request = EmptyDict
    /\ kwargs = EmptyDict
    /\ pc = "start"
    /\ result = NoResult
    /\ local = NoLocals
    /\ log = <<>>

\* SrvInfo.__init__ / EndpointContext.__init__, as far as provider_info:
\* create_providerinfo hands back the metadata or raises.
CreateProviderinfo ==
    /\ pc = "start"
    /\ LET out == IF conf.kind = "SrvInfo" THEN srv_info_providerinfo(conf)
                  ELSE endpoint_context_providerinfo(conf)
       IN  IF out.raised # "None"
           THEN /\ result' = [kind |-> "exception",
                              body |-> [exception |-> out.raised,
                                        not_supported |-> out.not_supported]]
                /\ pc' = "Raised"
           ELSE /\ result' = [kind |-> "provider_info", body |-> out._pinfo]
                /\ pc' = "started"
    /\ UNCHANGED <<conf, cdb, sdb, request, kwargs, local, log>>

NegotiateNext == CreateProviderinfo

SpecNegotiate == NegotiateInit /\ [][NegotiateNext]_vars

-----------------------------------------------------------------------------
(* The max_age handed to authenticated_as, on its own *)

\* max_age values of requests, in seconds.
Ages == {0, 30, 600, 86400}

\* Requests with and without a request object, a max_age in either, and
\* the answer of the re-authentication confirmation.
MaxAgeRequests ==
    { ("client_id" :> "c1") @@ nested @@ top @@ upm :
        nested \in Opt("request", {EmptyDict} \cup {("max_age" :> a) : a \in Ages}),
        top \in Opt("max_age", Ages),
        upm \in Opt("upm_answer", {"true", "false"}) }

MaxAgeInit ==
    /\ request \in MaxAgeRequests
    /\ conf = EmptyDict
    /\ cdb = Cdb0
    /\ sdb = Sdb0
    /\ kwargs = EmptyDict
    /\ pc = "start"
    /\ result = NoResult
    /\ local = NoLocals
    /\ log = <<>>

\* setup_auth, lines 427-433: authenticated_as is called with the
\* effective max_age.
AuthenticatedAs ==
    /\ pc = "start"
    /\ result' = [kind |-> "authenticated_as",
                  body |-> [max_age |-> effective_max_age(request)]]
    /\ log' = log \o <<"authenticated_as">>
    /\ pc' = "looked_up"
    /\ UNCHANGED <<conf, cdb, sdb, request, kwargs, local>>

MaxAgeNext == AuthenticatedAs

SpecMaxAge == MaxAgeInit /\ [][MaxAgeNext]_vars

-----------------------------------------------------------------------------
(* The selection of the authentication method, on its own *)

\* The acr values a request may list: two registered ones and an unknown.
AcrValues == {"acr1", "acr2", "acr9"}

\* claims.id_token.acr of a request: a single value, a list of up to two
\* values, or a definition with neither.
PickAcrDefs ==
    {[value |-> a] : a \in AcrValues}
    \cup {[values |-> <<>>]}
    \cup {[values |-> <<a>>] : a \in AcrValues}
    \cup {[values |-> <<a, b>>] : a \in AcrValues, b \in AcrValues}
    \cup {[essential |-> TRUE]}

PickRequests ==
    { ("client_id" :> "c1") @@ ("response_type" :> <<"code">>) @@
      ("redirect_uri" :> U_a) @@ cl :
        cl \in Opt("claims", {[id_token |-> [acr |-> a]] : a \in PickAcrDefs}) }

\* What the broker answers to the default pick, and the baseline of
\* "better".
PickBrokerAnswers ==
    [default_pick : {NoMethod, Broker[1], Broker[2]}, baseline : {0, 2, 3}]

PickInit ==
    /\ request \in PickRequests
    /\ conf \in {[authn_broker |-> b] : b \in PickBrokerAnswers}
    /\ cdb = Cdb0
    /\ sdb = Sdb0
    /\ kwargs = EmptyDict
    /\ pc = "start"
    /\ result = NoResult
    /\ local = NoLocals
    /\ log = <<>>

\* setup_auth, lines 418-419: pick_authn_method is called.
PickAuthnMethod ==
    /\ pc = "start"
    /\ result' = pick_authn_method(request, request["redirect_uri"],
                                   conf.authn_broker)
    /\ log' = log \o <<"pick_authn_method">>
    /\ pc' = "picked"
    /\ UNCHANGED <<conf, cdb, sdb, request, kwargs, local>>

PickNext == PickAuthnMethod

SpecPick == PickInit /\ [][PickNext]_vars

-----------------------------------------------------------------------------
(* The signing-algorithm lists of the provider metadata *)

\* The code point of a character of an algorithm name.
ord(c) ==
    CASE c = "1" -> 49 [] c = "2" -> 50 [] c = "3" -> 51 [] c = "4" -> 52
      [] c = "5" -> 53 [] c = "6" -> 54 [] c = "8" -> 56
      [] c = "E" -> 69 [] c = "H" -> 72 [] c = "P" -> 80 [] c = "R" -> 82
      [] c = "S" -> 83 [] c = "e" -> 101 [] c = "n" -> 110 [] c = "o" -> 111

\* alg1 < alg2 of two str: the first differing character decides, and a
\* proper prefix is the smaller.
RECURSIVE str_lt(_, _)
str_lt(a, b) ==
    IF b = <<>> THEN FALSE
    ELSE IF a = <<>> THEN TRUE
    ELSE IF ord(a[1]) < ord(b[1]) THEN TRUE
    ELSE IF ord(a[1]) > ord(b[1]) THEN FALSE
    ELSE str_lt(Tail(a), Tail(b))

\* SORT_ORDER, keyed by the first two characters of a name.
SORT_ORDER ==
    (<<"R", "S">> :> 0) @@ (<<"E", "S">> :> 1) @@ (<<"H", "S">> :> 2) @@
    (<<"P", "S">> :> 3) @@ (<<"n", "o">> :> 4)

\* sort_sign_alg that compares the names only.
sort_sign_alg_by_name(alg1, alg2) ==
    IF str_lt(alg1, alg2) THEN -1
    ELSE IF str_lt(alg2, alg1) THEN 1
    ELSE 0

\* sort_sign_alg(alg1, alg2).
sort_sign_alg(alg1, alg2) ==
    IF SORT_ORDER[SubSeq(alg1, 1, 2)] < SORT_ORDER[SubSeq(alg2, 1, 2)] THEN -1
    ELSE IF SORT_ORDER[SubSeq(alg1, 1, 2)] > SORT_ORDER[SubSeq(alg2, 1, 2)] THEN 1
    ELSE IF str_lt(alg1, alg2) THEN -1
    ELSE IF str_lt(alg2, alg1) THEN 1
    ELSE 0

\* sorted(algs, key=cmp_to_key(sort_sign_alg)) of distinct names: each
\* place gets a name that the comparison puts after none of the rest.
RECURSIVE sorted(_)
sorted(algs) ==
    IF algs = {} THEN <<>>
    ELSE LET first == CHOOSE x \in algs :
                          \A y \in algs : sort_sign_alg(x, y) <= 0
         IN  <<first>> \o sorted(algs \ {first})

\* The names of jws.SIGNER_ALGS: three sizes of four families, and none.
Alg(family, size) == family \o size
AlgNone == <<"n", "o", "n", "e">>
AllAlgs ==
    { Alg(f, n) : f \in {<<"R", "S">>, <<"E", "S">>, <<"H", "S">>, <<"P", "S">>},
                  n \in {<<"2", "5", "6">>, <<"3", "8", "4">>, <<"5", "1", "2">>} }
    \cup {AlgNone}

\* Lines 161-173 of package_capabilities: the four signing-algorithm lists.
signing_alg_lists(signer_algs) ==
    LET sign_algs == sorted(signer_algs)
        without_none == SelectSeq(sign_algs, LAMBDA a : a # AlgNone)
    IN  [ userinfo_signing_alg_values_supported |-> List(sign_algs),
          id_token_signing_alg_values_supported |-> List(sign_algs),
          request_object_signing_alg_values_supported |-> List(sign_algs),
          token_endpoint_auth_signing_alg_values_supported |-> List(without_none) ]

\* list(sv): the entries of a set in one of the orders a set may have.
list_of_set(sv) ==
    {l \in [1..Cardinality(sv) -> sv] : Range(l) = sv}

\* How many algorithms besides none the signing library of a server has,
\* when it does not have all of them.
MaxAlgs == 3

\* The algorithms the library supports (none is always among them), and
\* the signing-algorithm lists the configuration gives, if any.
SignAlgConfs ==
    { [SIGNER_ALGS |-> algs, capabilities |-> cap] :
        algs \in {a \cup {AlgNone} : a \in {x \in SUBSET (AllAlgs \ {AlgNone}) :
                                               Cardinality(x) <= MaxAlgs}}
                 \cup {AllAlgs},
        cap \in {EmptyDict} }
    \cup
    UNION { { [SIGNER_ALGS |-> a \cup {AlgNone}, capabilities |-> (key :> List(l))] :
                key \in {"id_token_signing_alg_values_supported",
                         "token_endpoint_auth_signing_alg_values_supported"},
                l \in {<<x>> : x \in a \cup {Alg(<<"P", "S">>, <<"2", "5", "6">>)}}
                      \cup {<<x, y>> : x \in a \cup {AlgNone}, y \in a} } :
            a \in {x \in SUBSET {Alg(<<"R", "S">>, <<"2", "5", "6">>),
                                  Alg(<<"E", "S">>, <<"2", "5", "6">>),
                                  Alg(<<"H", "S">>, <<"2", "5", "6">>)} : x # {}} }

SignAlgInit ==
    /\ conf \in SignAlgConfs
    /\ cdb = EmptyDict
    /\ sdb = EmptyDict
    /\ request = EmptyDict
    /\ kwargs = EmptyDict
    /\ pc = "start"
    /\ result = NoResult
    /\ local = NoLocals
    /\ log = <<>>

\* package_capabilities builds the lists.
PackageCapabilities ==
    /\ pc = "start"
    /\ result' = [kind |-> "capabilities",
                  body |-> signing_alg_lists(conf.SIGNER_ALGS)]
    /\ pc' = "packaged"
    /\ log' = log \o <<"package_capabilities">>
    /\ UNCHANGED <<conf, cdb, sdb, request, kwargs, local>>

\* The loop of create_providerinfo over the configured lists: a list
\* within the supported one replaces it, as list(sv); any other raises.
NegotiateSigningAlgs ==
    /\ pc = "packaged"
    /\ LET out == [key \in DOMAIN conf.capabilities |->
                      negotiate_list(result.body[key], conf.capabilities[key])]
           failed == {key \in DOMAIN conf.capabilities : ~out[key].ok}
       IN  IF failed # {}
           THEN /\ result' = [kind |-> "exception",
                              body |-> [exception |-> "ConfigurationError",
                                        not_supported |-> [key \in failed |-> out[key].value]]]
                /\ pc' = "Raised"
           ELSE /\ \E order \in [DOMAIN conf.capabilities ->
                                     UNION {list_of_set(out[key].value.s) :
                                               key \in DOMAIN conf.capabilities}] :
                     /\ \A key \in DOMAIN conf.capabilities :
                           order[key] \in list_of_set(out[key].value.s)
                     /\ result' = [kind |-> "provider_info",
                                   body |-> [key \in DOMAIN conf.capabilities |->
                                                List(order[key])] @@ result.body]
                /\ pc' = "started"
    /\ log' = log \o <<"create_providerinfo">>
    /\ UNCHANGED <<conf, cdb, sdb, request, kwargs, local>>

SignAlgNext == PackageCapabilities \/ NegotiateSigningAlgs

SpecSignAlgs == SignAlgInit /\ [][SignAlgNext]_vars

-----------------------------------------------------------------------------
(* Properties of the redirect-URI validator (checked under SpecVerify) *)

\* The (key, value) pairs of a query multimap; none for None and for text.
QueryPairs(q) ==
    IF q.tag = "dict"
    THEN UNION {{<<key, val>> : val \in Range(q.d[key])} : key \in DOMAIN q.d}
    ELSE {}

\* The query multimap of a URI: parse_qs of the text after its last "?".
QueryMap(uri) ==
    IF splitquery(uri).query.tag = "str"
    THEN Dict(parse_qs(splitquery(uri).query.s)) ELSE None

\* The registered entry and the URI satisfy what the validator asks of one
\* entry: no fragment, equal bases, and the same query pairs on both sides.
Satisfies(entry, uri) ==
    /\ urlparse_fragment(uri) = <<>>
    /\ splitquery(uri).base = entry.base
    /\ QueryPairs(entry.rquery) \subseteq QueryPairs(QueryMap(uri))
    /\ QueryPairs(QueryMap(uri)) \subseteq QueryPairs(entry.rquery)

\* The validator was run for a client that is in the database.
VerifiedKnownClient ==
    pc = "verified" /\ request["client_id"] \in DOMAIN cdb

RegisteredURIs == cdb[request["client_id"]]["redirect_uris"]

Accepted == result.body.raised = "None"

\* The request URI after percent-decoding, which is what the validator
\* examines.
DecodedURI == unquote(request["redirect_uri"])

C4_AcceptedWhenSomeEntrySatisfies ==
    VerifiedKnownClient =>
        ((\E i \in 1..Len(RegisteredURIs) : Satisfies(RegisteredURIs[i], DecodedURI))
            => Accepted)

\* C6: an existing client whose entries do not match gets RedirectURIError
\* and never UnknownClient; an absent client gets UnknownClient and never
\* RedirectURIError.
C6_FailuresDistinguished ==
    pc = "verified" =>
        /\ request["client_id"] \in DOMAIN cdb =>
              /\ result.body.raised \in {"None", "RedirectURIError"}
              /\ (~\E i \in 1..Len(RegisteredURIs) :
                       Satisfies(RegisteredURIs[i], DecodedURI))
                    => result.body.raised = "RedirectURIError"
        /\ request["client_id"] \notin DOMAIN cdb =>
              result.body.raised = "UnknownClient"

\* C6's case: a request of an absent client whose URI also has a fragment
\* fails as UnknownClient.
C6_Witness ==
    /\ pc = "verified"
    /\ request["client_id"] \notin DOMAIN cdb
    /\ urlparse_fragment(DecodedURI) # <<>>
    /\ result.body.raised = "UnknownClient"

-----------------------------------------------------------------------------
(* Properties of the flow (checked under Spec) *)

\* Admission has run on a request that could be parsed.  The client
\* database it saw is Cdb0: the database changes only after admission.
Admission == local.admission # "pending" /\ request # EmptyDict

\* What the flow has called so far.
Called(what) == what \in Range(log)

\* No session was created by this flow.
NoSessionCreated == DOMAIN sdb = DOMAIN Sdb0

\* The response parameters of the delivered payload.
DeliveredArgs == result.body["response_args"]

\* The acr values the request gives, and whether the broker has an exact
\* match for any of them.
RequestedAcrs ==
    IF _acr_claims(request).tag = "list" THEN _acr_claims(request).l ELSE <<>>

\* C1: a request whose set of response types is not among the registered
\* combinations of the client (default {code}) is answered by admission with
\* invalid_request, and neither method selection nor authentication follows.
C1_UnregisteredResponseTypeRejected ==
    (/\ Admission
     /\ local.client_id \in DOMAIN Cdb0
     /\ Range(request["response_type"]) \notin
            registered_response_types(Cdb0[local.client_id]))
    => /\ pc = "Error"
       /\ result.kind = "error"
       /\ result.body.error = "invalid_request"
       /\ ~Called("pick_authn_method")
       /\ ~Called("authenticate")

\* The scenario of C2: response_type [code], a known client, and a
\* redirect_uri equal to a base the client registered with no query.
C2_Scenario ==
    /\ Admission
    /\ request["response_type"] = <<"code">>
    /\ request["client_id"] \in DOMAIN Cdb0
    /\ local.client_id = request["client_id"]
    /\ "redirect_uri" \in DOMAIN request
    /\ \E i \in 1..Len(Cdb0[request["client_id"]]["redirect_uris"]) :
          LET entry == Cdb0[request["client_id"]]["redirect_uris"][i]
          IN  entry.base = request["redirect_uri"] /\ entry.rquery.tag = "None"

\* C2: in that scenario admission does not reject, and what is delivered has
\* fragment_enc false and response parameters code, iss, client_id, and
\* state exactly when the request carried state.
C2_CodeFlowSucceeds ==
    C2_Scenario =>
        /\ local.admission = "admitted"
        /\ pc = "Delivered" =>
              /\ result.body["fragment_enc"] = FALSE
              /\ {"code", "iss", "client_id"} \subseteq DOMAIN DeliveredArgs
              /\ "state" \in DOMAIN DeliveredArgs <=> "state" \in DOMAIN request

\* C5: a request of a registered client whose redirect_uri has a fragment is
\* rejected by the validator with RedirectURIError; admission answers with an
\* error response and no authentication method is picked or invoked.
C5_FragmentNeverReachesAuthentication ==
    (/\ Admission
     /\ request["client_id"] \in DOMAIN Cdb0
     /\ "redirect_uri" \in DOMAIN request
     /\ urlparse_fragment(request["redirect_uri"]) # <<>>)
    => /\ verify_redirect_uri(Cdb0, request) = "RedirectURIError"
       /\ pc = "Error"
       /\ result.kind = "error"
       /\ Called("get_redirect_uri") =>
             (local.cause = "RedirectURIError" /\ result.body.error = "invalid_request")
       /\ ~Called("pick_authn_method")
       /\ ~Called("authenticate")

\* C5's case: admission got as far as the redirect URI, which has a
\* fragment, and answered with the error.
C5_Witness ==
    /\ Admission
    /\ "redirect_uri" \in DOMAIN request
    /\ urlparse_fragment(request["redirect_uri"]) # <<>>
    /\ Called("get_redirect_uri")
    /\ local.cause = "RedirectURIError"
    /\ pc = "Error"

C8_FailedURINotRedirected ==
    (pc = "Error" /\ local.cause \in {"RedirectURIError", "ParameterError", "UnknownClient"})
    => /\ result.kind = "error"
       /\ "redirect_uri" \notin DOMAIN result.body
       /\ "return_uri" \notin DOMAIN result.body

\* C8's case: the redirect URI fails when it is resolved again after the
\* response was assembled.
C8_Witness ==
    /\ pc = "Error"
    /\ local.cause = "RedirectURIError"
    /\ Called("create_authn_response")
    /\ "redirect_uri" \notin DOMAIN result.body

\* C9: with no current identity (the lookup raised NoSuchAuthentication,
\* TamperAllert or ToOld, or returned none) and prompt=none, the flow ends
\* with login_required: no session, no authorization hook, no authenticator.
C9_LoginRequired ==
    (/\ local.lookup \in {"NoSuchAuthentication", "TamperAllert", "ToOld", "None"}
     /\ "prompt" \in DOMAIN request
     /\ "none" \in request["prompt"])
    => /\ pc = "Error"
       /\ result.kind = "error"
       /\ result.body.error = "login_required"
       /\ NoSessionCreated
       /\ ~Called("authz")
       /\ ~Called("authenticate")

\* C9's case: the cookie failed its tamper check and the request has
\* prompt=none.
C9_Witness ==
    /\ local.lookup = "TamperAllert"
    /\ "prompt" \in DOMAIN request
    /\ "none" \in request["prompt"]
    /\ result.kind = "error"
    /\ result.body.error = "login_required"

\* C10: when the request gives acr values and the broker has an exact match
\* for none of them, the flow ends with an access_denied error response: no
\* exception, no authenticator, no session.
C10_NoAcrMatchAccessDenied ==
    (/\ Called("pick_authn_method")
     /\ RequestedAcrs # <<>>
     /\ \A acr \in Range(RequestedAcrs) : pick_exact(acr) = <<>>)
    => /\ pc = "Error"
       /\ result.kind = "error"
       /\ result.body.error = "access_denied"
       /\ NoSessionCreated
       /\ ~Called("authenticate")

-----------------------------------------------------------------------------
(* Properties of post-authentication processing (checked under Spec) *)

\* post_authn got as far as the response mode.
ModeReached == Called("make_headers")

\* The response mode did not fail.
ModeSucceeded == pc \in {"ModeEncoded", "Delivered"}

\* The session of this flow.
FlowSession == sdb[local.sid]

\* The response types asked for that create_authn_response cannot handle.
Unhandled == Range(request["response_type"]) \ {"code", "token", "id_token"}

\* C11: with an explicit response_mode, fragment succeeds exactly when
\* fragment_enc is true, query exactly when it is false, and a value other
\* than form_post, fragment and query ends with invalid_request; with no
\* response_mode nothing is checked and the response goes on.
C11_ResponseModeMatchesEncoding ==
    ModeReached =>
        LET fragment_enc == local.response_info["fragment_enc"]
        IN  IF "response_mode" \notin DOMAIN request THEN ModeSucceeded
            ELSE CASE request["response_mode"] = "fragment" ->
                          (ModeSucceeded <=> fragment_enc)
                   [] request["response_mode"] = "query" ->
                          (ModeSucceeded <=> ~fragment_enc)
                   [] request["response_mode"] = "form_post" -> TRUE
                   [] OTHER ->
                          /\ pc = "Error"
                          /\ result.body.error = "invalid_request"

\* C12: with response_mode form_post the response parameters are rendered
\* into a form: one hidden input per response parameter and no other, the
\* action equal to the validated redirect URI, submitted on load.
C12_FormPostRendersForm ==
    (/\ ModeReached
     /\ "response_mode" \in DOMAIN request
     /\ request["response_mode"] = "form_post")
    => /\ ModeSucceeded
       /\ LET form == local.response_info["response_args"]
          IN  /\ "tag" \in DOMAIN form
              /\ form.tag = "html"
              /\ form.onload = "submit"
              /\ form.action = local.response_info["return_uri"]

UnsupportedNamed ==
    /\ pc = "Error"
    /\ result.kind = "error"
    /\ result.body.error = "unsupported_response_type"
    /\ result.body.error_description = Unhandled

C16_SigningFailureIsInvalidRequest ==
    (/\ Called("sign_encrypt_id_token")
     /\ local.signer \in {"JWEException", "NoSuitableSigningKeys"})
    => /\ pc = "Error"
       /\ result.kind = "error"
       /\ result.body.error = "invalid_request"
       /\ result.body.error_description = "Could not sign/encrypt id_token"

\* C16's case: the signer found no suitable key.
C16_Witness ==
    /\ Called("sign_encrypt_id_token")
    /\ local.signer = "NoSuitableSigningKeys"
    /\ pc = "Error"

\* C18: a session that is revoked when post_authn checks it ends the flow
\* with access_denied before assembly: the code is neither copied nor
\* cleared, no token upgrade is asked for and no id_token is signed.
C18_RevokedBeforeAssembly ==
    (Called("sdb.is_session_revoked") /\ FlowSession.revoked)
    => /\ pc = "Error"
       /\ result.kind = "error"
       /\ result.body.error = "access_denied"
       /\ ~Called("create_authn_response")
       /\ ~Called("sdb.update(code=None)")
       /\ ~Called("sdb.upgrade_to_token(issue_refresh=False)")
       /\ ~Called("sign_encrypt_id_token")
       /\ FlowSession.code.tag = "code"
       /\ FlowSession.access_token.tag = "None"
       /\ FlowSession.id_token.tag = "None"

\* C18's case: the session was revoked after the grant was stored.
C18_Witness ==
    /\ Called("sdb.is_session_revoked")
    /\ FlowSession.revoked
    /\ FlowSession.permission.tag = "permission"
    /\ pc = "Error"

\* C19: when the authorization hook fails the flow ends with an
\* access_denied error response with error and error_description; no
\* exception escapes, no permission is stored, no response is assembled.
C19_AuthzFailureIsAccessDenied ==
    (Called("authz") /\ ~Called("sdb.update(permission)"))
    => /\ pc = "Error"
       /\ result.kind = "error"
       /\ result.body.error = "access_denied"
       /\ "error_description" \in DOMAIN result.body
       /\ FlowSession.permission.tag = "None"
       /\ ~Called("create_authn_response")

\* C20: when the redirect URI cannot be resolved again after assembly (it
\* no longer matches, it is missing, or the client is gone from the client
\* database) the flow ends with invalid_request; nothing is delivered.
C20_ReResolutionFailureIsInvalidRequest ==
    (/\ local.response_info # EmptyDict
     /\ pc # "Assembled"
     /\ get_redirect_uri(cdb, request).raised # "None")
    => /\ pc = "Error"
       /\ result.kind = "error"
       /\ result.body.error = "invalid_request"

-----------------------------------------------------------------------------
(* Properties of create_authn_response (checked under SpecAssemble) *)

\* What the calls so far handed back.
Outs == result.body.outs

\* The calls that handed back a response.
Results == {i \in 1..Len(Outs) : Outs[i].kind = "info"}

\* C13: a result of create_authn_response has fragment_enc false exactly
\* when the set of response types asked for is {code} or {none}.
C13_QueryEncodingOnlyForCodeOrNone ==
    \A i \in Results :
        Outs[i].body["fragment_enc"] = FALSE
            <=> Range(request["response_type"]) \in {{"code"}, {"none"}}

\* C13's case: a result for [code], with fragment_enc false.
C13_Witness ==
    /\ 1 \in Results
    /\ request["response_type"] = <<"code">>
    /\ Outs[1].body["fragment_enc"] = FALSE

\* C17: two calls with the same session and request that both hand back a
\* response hand back the same fragment_enc and the same populated fields,
\* and the later call leaves the code of the session as the earlier did, and
\* its access token too unless it asked the store for the upgrade.
C17_SecondCallSameResult ==
    \A i \in Results : \A j \in Results :
        i < j =>
            /\ Outs[i].body["fragment_enc"] = Outs[j].body["fragment_enc"]
            /\ DOMAIN Outs[i].body["response_args"] = DOMAIN Outs[j].body["response_args"]
            /\ Outs[i].session.code = Outs[j].session.code
            /\ "token" \notin Range(request["response_type"]) =>
                  Outs[i].session.access_token = Outs[j].session.access_token

\* C17's case: [id_token, token] assembled twice, the second time on a
\* session that already holds the token and the id_token of the first.
C17_Witness ==
    /\ Results = {1, 2}
    /\ request["response_type"] = <<"id_token", "token">>
    /\ "access_token" \in DOMAIN Outs[2].body["response_args"]
    /\ "id_token" \in DOMAIN Outs[2].body["response_args"]

-----------------------------------------------------------------------------
(* Properties of the provider metadata (checked under SpecNegotiate) *)

\* The entries the configuration gives for a capability.
ConfiguredEntries(key) ==
    LET val == conf.capabilities[key]
    IN  IF val.tag = "str" THEN {val.s} ELSE Range(val.l)

\* The configured capabilities whose supported value is a list.
ListKeys ==
    {key \in DOMAIN conf.capabilities :
        key \in DOMAIN CAPABILITIES /\ CAPABILITIES[key].tag = "list"}

\* The configured entries of a list capability outside its superset.
Outside(key) == ConfiguredEntries(key) \ Range(CAPABILITIES[key].l)

\* C21: if some configured entry of a list capability lies outside its
\* superset, create_providerinfo raises ConfigurationError; the error names a
\* list capability iff some entry of it is unsupported, and names exactly
\* those entries; a configuration of list capabilities only succeeds iff no
\* entry is outside, and what succeeds advertises exactly the configured
\* entries of each list capability.
C21_ListNegotiation ==
    pc # "start" =>
        /\ (\E key \in ListKeys : Outside(key) # {}) =>
              /\ pc = "Raised"
              /\ result.body.exception = "ConfigurationError"
        /\ pc = "Raised" =>
              \A key \in ListKeys :
                  /\ key \in DOMAIN result.body.not_supported <=> Outside(key) # {}
                  /\ key \in DOMAIN result.body.not_supported =>
                        result.body.not_supported[key] = ListOfSet(Outside(key))
        /\ DOMAIN conf.capabilities = ListKeys =>
              (pc = "started" <=> \A key \in ListKeys : Outside(key) = {})
        /\ pc = "started" =>
              \A key \in ListKeys : result.body[key] = ListOfSet(ConfiguredEntries(key))

\* C21's case: two list capabilities configured, one with a supported and
\* an unsupported entry, the other supported: the error names one entry.
C21_Witness ==
    /\ pc = "Raised"
    /\ DOMAIN conf.capabilities = {"response_modes_supported", "subject_types_supported"}
    /\ conf.capabilities["response_modes_supported"] = List(<<"query", "web_message">>)
    /\ conf.capabilities["subject_types_supported"] = List(<<"public", "pairwise">>)
    /\ DOMAIN result.body.not_supported = {"response_modes_supported"}
    /\ result.body.not_supported["response_modes_supported"] = ListOfSet({"web_message"})

\* The base URL and a relative path with exactly one "/" between them.
OneSlashJoin(base, path) ==
    IF base # <<>> /\ base[Len(base)] = "/" THEN base \o path
    ELSE base \o <<"/">> \o path

\* C22: in the metadata every endpoint URL is the base URL joined with the
\* configured path, and the jwks_uri made from a configured public path is
\* the issuer joined with it, with exactly one "/" between the two.
C22_OneSlashBetweenBaseAndPath ==
    pc = "started" =>
        /\ \A name \in DOMAIN conf.endpoint :
              result.body[endpoint_key(name)] =
                  Str(OneSlashJoin(conf.base_url, conf.endpoint[name]))
        /\ "public_path" \in DOMAIN conf.jwks =>
              result.body["jwks_uri"] =
                  Str(OneSlashJoin(conf.issuer, conf.jwks["public_path"]))

\* C23: with the default capability table as configuration nothing is
\* raised, every list capability advertises the set of values of the table
\* and every boolean capability its value.
C23_DefaultTableNegotiatesToItself ==
    (pc # "start" /\ conf.capabilities = CAPABILITIES) =>
        /\ pc = "started"
        /\ \A key \in DOMAIN CAPABILITIES :
              IF CAPABILITIES[key].tag = "list"
              THEN /\ result.body[key].tag = "listof"
                   /\ result.body[key].s = Range(CAPABILITIES[key].l)
              ELSE result.body[key] = CAPABILITIES[key]

\* C23's case: a server started with the default table.
C23_Witness ==
    /\ pc = "started"
    /\ conf.capabilities = CAPABILITIES
    /\ result.kind = "provider_info"
    /\ result.body["claims_parameter_supported"] = Bool(TRUE)

-----------------------------------------------------------------------------
(* Properties of the flow: the session store and the order of the steps *)

\* What one logged store operation of the flow makes of the session store.
StoreOp(store, sid, op, loc) ==
    CASE op = "sdb.create_authz_session" ->
            create_authz_session(store, loc.info.authn_event, request)
      [] op = "sdb.update(permission)" ->
            [store EXCEPT ![sid].permission = [tag |-> "permission", user |-> loc.user]]
      [] op = "sdb.update(code=None)" -> [store EXCEPT ![sid].code = None]
      [] op = "sdb.upgrade_to_token(issue_refresh=False)" -> upgrade_to_token(store, sid)
      [] OTHER -> store

\* The store after the store operations among the logged calls, in order.
RECURSIVE Replay(_, _, _, _)
Replay(store, sid, ops, loc) ==
    IF ops = <<>> THEN store
    ELSE Replay(StoreOp(store, sid, Head(ops), loc), sid, Tail(ops), loc)

\* C24: every change a step of the flow makes to the sessions is the effect
\* of the store operations of that step (create_authz_session, update,
\* upgrade_to_token); no session field is written in any other way, such as
\* into a session read from the store earlier.
C24_SessionChangesAreStoreOperations ==
    [][log' # log =>
          sdb' = Replay(sdb, local'.sid,
                        SubSeq(log', Len(log) + 1, Len(log')), local')]_vars

\* The calls that mark the steps of a flow, in the order of
\* process_request, authz_part2 and post_authn.
StepOrder ==
    << "cdb", "verify_response_type", "get_redirect_uri",
       "pick_authn_method", "authenticated_as",
       "sdb.create_authz_session",
       "authz", "sdb.update(permission)",
       "sdb.is_session_revoked",
       "create_authn_response",
       "get_redirect_uri",
       "aresp_check", "make_headers",
       "mix_up" >>

\* The calls made inside a step: the store calls and the signing inside
\* create_authn_response, the response_mode call of the mode encoding, and
\* the invocation of the authentication method of a suspended flow.
InsideStep ==
    { "sdb.update(code=None)", "sdb.upgrade_to_token(issue_refresh=False)", "sign_encrypt_id_token",
      "_sinfo[id_token]", "response_mode", "authenticate" }

\* The step marks of the log.
RECURSIVE Steps(_)
Steps(calls) ==
    IF calls = <<>> THEN <<>>
    ELSE IF Head(calls) \in InsideStep THEN Steps(Tail(calls))
    ELSE <<Head(calls)>> \o Steps(Tail(calls))

\* The calls of a step come after the mark of their step.
InsideFollowsItsStep ==
    \A i \in 1..Len(log) :
        /\ log[i] \in InsideStep \ {"response_mode", "authenticate"} =>
              Steps(SubSeq(log, 1, i - 1))[Len(Steps(SubSeq(log, 1, i - 1)))]
                  = "create_authn_response"
        /\ log[i] = "response_mode" => (i > 1 /\ log[i - 1] = "make_headers")
        /\ log[i] = "authenticate" => (i = Len(log) /\ pc = "AuthnPending")

\* C25: the steps of every run are a prefix of the order admission,
\* method selection and identity lookup, session creation, authorization
\* and grant, revoked check, assembly, re-resolution, rejection hook,
\* headers, mode encoding, mix-up stamping; a delivered run has made all of
\* them; and once a step has yielded an error or an exception no further
\* step is made and the sessions are not changed by the run any more.
C25_StepsInOrderAndErrorsEnd ==
    /\ [](/\ Len(Steps(log)) <= Len(StepOrder)
          /\ Steps(log) = SubSeq(StepOrder, 1, Len(Steps(log)))
          /\ InsideFollowsItsStep
          /\ pc = "Delivered" => Steps(log) = StepOrder
          /\ pc \in {"Error", "Raised"} <=> result.kind \in {"error", "exception"})
    /\ [][result.kind \in {"error", "exception"} =>
             UNCHANGED <<sdb, log, result, pc, local>>]_vars

\* C25's case: a run that was delivered after all its steps, the store
\* calls of the assembly among them.
C25_Witness ==
    /\ pc = "Delivered"
    /\ Steps(log) = StepOrder
    /\ "sdb.upgrade_to_token(issue_refresh=False)" \in Range(log)
    /\ result.kind = "payload"

\* C26: a request whose client is not in the client database is answered
\* with unauthorized_client whatever its response types and redirect URI
\* are, and only the client database was consulted for it.
C26_UnknownClientDecidedFirst ==
    (Admission /\ local.client_id \notin DOMAIN Cdb0) =>
        /\ pc = "Error"
        /\ result.kind = "error"
        /\ result.body.error = "unauthorized_client"
        /\ log = <<"cdb">>

\* C26's case: an unknown client with a redirect URI that has a fragment
\* and response types nobody registered.
C26_Witness ==
    /\ Admission
    /\ local.client_id = "cX"
    /\ request["client_id"] = "cX"
    /\ request["response_type"] = <<"id_token", "foo">>
    /\ "redirect_uri" \in DOMAIN request
    /\ request["redirect_uri"] = <<"a", "#", "a">>
    /\ result.body.error = "unauthorized_client"

\* authenticated_as found no identity: it raised NoSuchAuthentication,
\* TamperAllert or ToOld, or returned none.
NoIdentity ==
    local.lookup \in {"NoSuchAuthentication", "TamperAllert", "ToOld", "None"}

\* The request's prompt contains the value.
Prompt(value) == "prompt" \in DOMAIN request /\ value \in request["prompt"]

\* The flow is suspended: what is handed on names a method of the broker
\* and the arguments gathered for it (the class reference of that method,
\* the request as query, and the requested subject if there is one), and
\* there is no authentication event, no new session and no grant.
Suspended ==
    /\ pc = "AuthnPending"
    /\ result.kind = "authn"
    /\ \E i \in 1..Len(Broker) :
          /\ result.body.function = Broker[i].method
          /\ result.body.args["authn_class_ref"] = Str(Broker[i].acr)
    /\ result.body.args["query"].of = request
    /\ "as_user" \in DOMAIN result.body.args <=> "req_user" \in DOMAIN kwargs
    /\ "as_user" \in DOMAIN result.body.args =>
          result.body.args["as_user"].l = <<kwargs["req_user"]>>
    /\ local.info = EmptyDict
    /\ sdb = Sdb0
    /\ ~Called("sdb.create_authz_session")
    /\ ~Called("authz")
    /\ ~Called("sdb.update(permission)")

\* C27: with no current identity and a prompt that does not contain none,
\* the flow is suspended with the descriptor of the chosen authenticator and
\* its arguments; no authentication event, session or grant exists.
C27_NoIdentitySuspends ==
    (NoIdentity /\ ~Prompt("none")) => Suspended

\* C27's case: the earlier authentication is too old, the request has no
\* prompt and names a subject.
C27_Witness ==
    /\ local.lookup = "ToOld"
    /\ "prompt" \notin DOMAIN request
    /\ "req_user" \in DOMAIN kwargs
    /\ pc = "AuthnPending"
    /\ result.body.function = "m2"

\* C28: with an identity, prompt containing login, and the method's done
\* reporting that the authentication was not freshly done, the flow is
\* suspended as in the no-identity case; without login in the prompt (and
\* no requested subject in conflict) the identity is reused.
C28_LoginPromptReauthenticates ==
    /\ (local.lookup = "identity" /\ Prompt("login") /\ ~local.done) => Suspended
    /\ (local.lookup = "identity" /\ ~Prompt("login") /\ "req_user" \notin DOMAIN kwargs
            /\ pc # "RequestValidated")
          => (local.info # EmptyDict /\ local.user = local.identity)


\* The sessions, before this flow, of the subject the request names.
RequestedSids == {sid \in DOMAIN Sdb0 : Sdb0[sid].sub = kwargs["req_user"]}

\* The request names a subject whose most recent session is bound to
\* another uid than the identity that authenticated_as established.
SubjectConflict ==
    /\ local.lookup = "identity"
    /\ "req_user" \in DOMAIN kwargs
    /\ RequestedSids # {}
    /\ \E last \in RequestedSids :
          /\ \A sid \in RequestedSids : sid <= last
          /\ Sdb0[last].authn_event.uid # local.identity

\* C29: when the requested subject's most recent session belongs to
\* another uid than the established identity, the answer is login_required
\* under prompt=none and a suspension otherwise; in neither case is there an
\* authentication event or a new session.
C29_SubjectConflictNeverSucceeds ==
    SubjectConflict =>
        /\ IF Prompt("none")
           THEN /\ pc = "Error"
                /\ result.kind = "error"
                /\ result.body.error = "login_required"
           ELSE Suspended
        /\ local.info = EmptyDict
        /\ sdb = Sdb0
        /\ ~Called("sdb.create_authz_session")

\* C29's case: alice is authenticated, the request names subB, whose
\* last session is bob's, and has prompt=none.
C29_Witness ==
    /\ SubjectConflict
    /\ local.identity = "alice"
    /\ kwargs["req_user"] = "subB"
    /\ Prompt("none")
    /\ result.kind = "error"
    /\ result.body.error = "login_required"

-----------------------------------------------------------------------------
(* Properties of the effective max_age (checked under SpecMaxAge) *)

\* C30: authenticated_as gets the max_age of the nested request object if
\* there is one, else the top-level max_age if there is one, else 0; and 0
\* whatever the request declares when upm_answer is "true".
C30_EffectiveMaxAge ==
    pc = "looked_up" =>
        LET nested == "request" \in DOMAIN request
                          /\ "max_age" \in DOMAIN request["request"]
            declared == IF nested THEN request["request"]["max_age"]
                        ELSE IF "max_age" \in DOMAIN request THEN request["max_age"]
                        ELSE 0
            confirmed == "upm_answer" \in DOMAIN request
                             /\ request["upm_answer"] = "true"
        IN  /\ Called("authenticated_as")
            /\ confirmed => result.body.max_age = 0
            /\ ~confirmed => result.body.max_age = declared

\* C30's case: a request object with max_age 30 in a request with max_age
\* 600 and upm_answer "false".
C30_Witness ==
    /\ pc = "looked_up"
    /\ "request" \in DOMAIN request
    /\ request["request"] = ("max_age" :> 30)
    /\ "max_age" \in DOMAIN request
    /\ request["max_age"] = 600
    /\ "upm_answer" \in DOMAIN request
    /\ request["upm_answer"] = "false"
    /\ result.body.max_age = 30

-----------------------------------------------------------------------------
(* Properties of the method selection (checked under SpecPick) *)

\* The acr values the request lists in claims.id_token.acr, in its order.
ListedAcrs ==
    IF "claims" \notin DOMAIN request THEN <<>>
    ELSE LET acrdef == request["claims"]["id_token"]["acr"]
         IN  IF "value" \in DOMAIN acrdef THEN <<acrdef["value"]>>
             ELSE IF "values" \in DOMAIN acrdef THEN acrdef["values"]
             ELSE <<>>

\* A method is registered under the acr.
Registered(acr) == \E i \in 1..Len(Broker) : Broker[i].acr = acr

\* The methods of the broker whose level reaches the baseline.
AtLeastBaseline ==
    {i \in 1..Len(Broker) : Broker[i].level >= conf.authn_broker.baseline}

\* C31: with acr values in the request the method chosen is registered
\* under the first listed value that has a registered method, and nothing is
\* chosen when no listed value has one; without acr values the default pick
\* is chosen if it found a method, else what "better" finds, else what "any"
\* finds.
C31_SelectionOrder ==
    pc = "picked" =>
        IF ListedAcrs # <<>>
        THEN IF \E i \in 1..Len(ListedAcrs) : Registered(ListedAcrs[i])
             THEN /\ result.kind = "tuple"
                  /\ \E i \in 1..Len(ListedAcrs) :
                        /\ result.body.acr = ListedAcrs[i]
                        /\ \A j \in 1..(i - 1) : ~Registered(ListedAcrs[j])
                  /\ \E i \in 1..Len(Broker) : result.body = Broker[i]
             ELSE /\ result.kind = "error"
                  /\ result.body.error = "access_denied"
        ELSE /\ result.kind = "tuple"
             /\ conf.authn_broker.default_pick # NoMethod =>
                   result.body = conf.authn_broker.default_pick
             /\ (conf.authn_broker.default_pick = NoMethod /\ AtLeastBaseline # {}) =>
                   /\ result.body.level >= conf.authn_broker.baseline
                   /\ \A i \in AtLeastBaseline : result.body.level <= Broker[i].level
             /\ (conf.authn_broker.default_pick = NoMethod /\ AtLeastBaseline = {}) =>
                   result.body = Broker[1]

\* C31's case: the request lists an unknown acr, then acr2 and not acr1,
\* and m2 is chosen although the default pick would give m1.
C31_Witness ==
    /\ pc = "picked"
    /\ ListedAcrs = <<"acr9", "acr2">>
    /\ conf.authn_broker.default_pick = Broker[1]
    /\ result.kind = "tuple"
    /\ result.body.method = "m2"

-----------------------------------------------------------------------------
(* Properties of the assembled response (checked under SpecAssemble) *)

\* The set of response types the request asks for, duplicates removed.
R == Range(request["response_type"])

\* The response parameters a call handed back.
Aresp(i) == Outs[i].body["response_args"]

\* C32: when the set of response types is {none}, a repeated none
\* included, every call hands back a response with fragment_enc false and
\* without code, access_token and id_token, and asks for no token upgrade.
C32_NoneProducesNothing ==
    R = {"none"} =>
        \A i \in 1..Len(Outs) :
            /\ Outs[i].kind = "info"
            /\ Outs[i].body["fragment_enc"] = FALSE
            /\ DOMAIN Aresp(i) \cap {"code", "access_token", "id_token"} = {}
            /\ "sdb.upgrade_to_token(issue_refresh=False)" \notin Range(Outs[i].calls)

\* The calls of the i-th call that are the named store call.
CallsOf(i, what) == {k \in 1..Len(Outs[i].calls) : Outs[i].calls[k] = what}

\* C33: for a response-type set other than {none}: with code in the set
\* the code of the response is the code the session held and the session
\* still holds it; without code in the set the code of the session has been
\* cleared, the response has no code, and the clearing was asked of the
\* store before any token upgrade.
C33_CodeCopiedOrCleared ==
    R # {"none"} =>
        \A i \in 1..Len(Outs) :
            IF "code" \in R
            THEN /\ Outs[i].session.code = Outs[i].before.code
                 /\ Outs[i].kind = "info" =>
                       /\ "code" \in DOMAIN Aresp(i)
                       /\ Aresp(i)["code"] = Outs[i].before.code
                 /\ CallsOf(i, "sdb.update(code=None)") = {}
            ELSE /\ Outs[i].session.code = None
                 /\ Outs[i].kind = "info" => "code" \notin DOMAIN Aresp(i)
                 /\ CallsOf(i, "sdb.update(code=None)") # {}
                 /\ \A c \in CallsOf(i, "sdb.update(code=None)") :
                       \A u \in CallsOf(i, "sdb.upgrade_to_token(issue_refresh=False)") :
                           c < u

\* C33's case: [id_token, token] on a session that held a code: the code
\* is cleared, then the token upgrade is asked for.
C33_Witness ==
    /\ request["response_type"] = <<"id_token", "token">>
    /\ Len(Outs) >= 1
    /\ Outs[1].kind = "info"
    /\ Outs[1].before.code # None
    /\ Outs[1].session.code = None
    /\ Outs[1].calls[1] = "sdb.update(code=None)"
    /\ Outs[1].calls[2] = "sdb.upgrade_to_token(issue_refresh=False)"

\* What upgrade_to_token handed back to the i-th call: the session it
\* left, in which the id_token of this call is not stored yet.
Upgraded(i) == [Outs[i].session EXCEPT !.id_token = Outs[i].before.id_token]

\* The fields of an upgrade result that are not None and are parameters of
\* an authorization response.
Copied(i) ==
    {k \in NullableParams : Upgraded(i)[k] # None} \cup PlainParams

\* C34: with token in the set each call asks for exactly one token
\* upgrade, without a refresh token, and a response has, besides the state,
\* scope, code and id_token of the other steps, exactly the recognised
\* fields of the upgrade result that are not None, with their values;
\* without token in the set no upgrade is asked for and a response has no
\* access_token.
C34_TokenUpgradeCopied ==
    R # {"none"} =>
        \A i \in 1..Len(Outs) :
            IF "token" \in R
            THEN /\ Cardinality(CallsOf(i, "sdb.upgrade_to_token(issue_refresh=False)")) = 1
                 /\ Outs[i].kind = "info" =>
                       /\ \A k \in Copied(i) \ {"id_token"} :
                             k \in DOMAIN Aresp(i) /\ Aresp(i)[k] = Upgraded(i)[k]
                       /\ DOMAIN Aresp(i) =
                             Copied(i)
                             \cup (DOMAIN request \cap {"state", "scope"})
                             \cup (R \cap {"code", "id_token"})
            ELSE /\ CallsOf(i, "sdb.upgrade_to_token(issue_refresh=False)") = {}
                 /\ Outs[i].kind = "info" => "access_token" \notin DOMAIN Aresp(i)

\* C34's case: [code, token]: the response has the access token and the
\* token type of the upgrade, and the code.
C34_Witness ==
    /\ request["response_type"] = <<"code", "token">>
    /\ Len(Outs) >= 1
    /\ Outs[1].kind = "info"
    /\ Aresp(1)["access_token"] = Outs[1].session.access_token
    /\ Aresp(1)["token_type"] = "Bearer"
    /\ "id_token" \notin DOMAIN Aresp(1)

\* The hint the signer got in the i-th call.
Hint(i) == Aresp(i)["id_token"].hint

\* C35: the hint of the signer has the code and the access token for
\* {code, id_token, token}, the code for {code, id_token}, the access token
\* for {id_token, token}, and nothing for {id_token}; the code of a hint is
\* the code of the response and its access token that of the response.
C35_HintShapes ==
    \A i \in Results :
        "id_token" \in R =>
            /\ DOMAIN Hint(i) = (IF "code" \in R THEN {"code"} ELSE {})
                                    \cup (IF "token" \in R THEN {"access_token"} ELSE {})
            /\ "code" \in DOMAIN Hint(i) => Hint(i)["code"] = Aresp(i)["code"]
            /\ "access_token" \in DOMAIN Hint(i) =>
                  Hint(i)["access_token"] = Aresp(i)["access_token"]

\* C35's case: [id_token, token]: the hint is the access token only.
C35_Witness ==
    /\ request["response_type"] = <<"id_token", "token">>
    /\ 1 \in Results
    /\ DOMAIN Hint(1) = {"access_token"}
    /\ Hint(1)["access_token"] = Aresp(1)["access_token"]
    /\ Outs[1].body["fragment_enc"] = TRUE

-----------------------------------------------------------------------------
(* Properties of the signing-algorithm lists (checked under SpecSignAlgs) *)

\* The metadata keys that hold a list of signing algorithms.
SigningKeys ==
    { "userinfo_signing_alg_values_supported",
      "id_token_signing_alg_values_supported",
      "request_object_signing_alg_values_supported",
      "token_endpoint_auth_signing_alg_values_supported" }

\* The place of the family of an algorithm: RS, ES, HS, PS, none.
FamilyRank(alg) ==
    CASE alg[1] = "R" -> 1
      [] alg[1] = "E" -> 2
      [] alg[1] = "H" -> 3
      [] alg[1] = "P" -> 4
      [] OTHER -> 5

\* The list is in the order of the families, and alphabetical within one.
InFamilyOrder(l) ==
    \A i \in 1..Len(l) : \A j \in 1..Len(l) :
        i < j =>
            \/ FamilyRank(l[i]) < FamilyRank(l[j])
            \/ FamilyRank(l[i]) = FamilyRank(l[j]) /\ str_lt(l[i], l[j])

\* sort_sign_alg is a consistent comparison of the supported names.
ConsistentComparison ==
    /\ \A a \in conf.SIGNER_ALGS : \A b \in conf.SIGNER_ALGS :
          /\ sort_sign_alg(a, b) = 0 - sort_sign_alg(b, a)
          /\ sort_sign_alg(a, b) = 0 <=> a = b
    /\ \A a \in conf.SIGNER_ALGS : \A b \in conf.SIGNER_ALGS :
          \A c \in conf.SIGNER_ALGS :
              (sort_sign_alg(a, b) < 0 /\ sort_sign_alg(b, c) < 0)
                  => sort_sign_alg(a, c) < 0

\* C36 as stated: every advertised signing-algorithm list is in the order
\* RS, ES, HS, PS, none, alphabetical within a family, and sort_sign_alg is
\* a consistent comparison.
C36_AdvertisedListsInFamilyOrder ==
    pc \in {"packaged", "started"} =>
        /\ \A key \in SigningKeys : InFamilyOrder(result.body[key].l)
        /\ ConsistentComparison

\* C36, amended: the signing-algorithm lists that package_capabilities
\* builds hold the supported algorithms (without none for the token
\* endpoint) in the order RS, ES, HS, PS, none, alphabetical within a family;
\* they are advertised as built unless the configuration names them, and a
\* list the configuration names is advertised with the configured entries;
\* sort_sign_alg is a consistent comparison.
C36_BuiltListsInFamilyOrder ==
    pc \in {"packaged", "started"} =>
        /\ \A key \in SigningKeys :
              IF pc = "started" /\ key \in DOMAIN conf.capabilities
              THEN Range(result.body[key].l) = Range(conf.capabilities[key].l)
              ELSE /\ InFamilyOrder(result.body[key].l)
                   /\ Range(result.body[key].l) =
                         IF key = "token_endpoint_auth_signing_alg_values_supported"
                         THEN conf.SIGNER_ALGS \ {AlgNone}
                         ELSE conf.SIGNER_ALGS
                   /\ Len(result.body[key].l) = Cardinality(Range(result.body[key].l))
        /\ ConsistentComparison

\* C36's case: a server whose library has all thirteen algorithms
\* advertises RS256 first, HS256 seventh and none last.
C36_Witness ==
    /\ pc = "started"
    /\ conf.SIGNER_ALGS = AllAlgs
    /\ result.body["id_token_signing_alg_values_supported"].l[1] = <<"R", "S", "2", "5", "6">>
    /\ result.body["id_token_signing_alg_values_supported"].l[7] = <<"H", "S", "2", "5", "6">>
    /\ result.body["id_token_signing_alg_values_supported"].l[13] = AlgNone
    /\ Len(result.body["token_endpoint_auth_signing_alg_values_supported"].l) = 12

-----------------------------------------------------------------------------
(* Properties of the flow: one client, and the session after an error *)

\* C37: an admitted request has a redirect URI that is valid for the
\* client whose existence and response types admission checked (the client
\* of the client_id argument), whatever client the request itself names.
C37_AdmittedOnTheCheckedClient ==
    (Admission /\ local.admission = "admitted") =>
        get_redirect_uri(Cdb0, [request EXCEPT !["client_id"] = local.client_id]).raised
            = "None"

\* C38: when response assembly, or a step after it, ends the flow with an
\* error response, the session of the flow is as it was when assembly
\* started: it holds its code, no access token and no id_token.
C38_SessionUntouchedAfterAssemblyError ==
    (pc = "Error" /\ Called("create_authn_response")) =>
        /\ FlowSession.code # None
        /\ FlowSession.access_token = None
        /\ FlowSession.id_token = None

-----------------------------------------------------------------------------
(* Two executions of process_request on one session store *)

\* The two units of execution; each has its own request, keyword
\* arguments, position, locals and result, and both use srv_info.sdb.
Execs == {1, 2}

\* The admitted requests the two executions handle.
TwoRequests ==
    { ("client_id" :> c) @@ ("response_type" :> rt) @@
      ("redirect_uri" :> U_a) @@ ("state" :> "s1") :
        c \in {"c1", "c2"},
        rt \in { <<"code">>, <<"code", "id_token", "token">>, <<"id_token">> } }

\* The keyword arguments of the two executions: a requested subject that
\* either of them may open a session for.
TwoKwargs == Opt("req_user", {"subA", "subB"})

TwoInit ==
    /\ cdb = Cdb0
    /\ sdb = Sdb0
    /\ conf = EmptyDict
    /\ request \in [Execs -> TwoRequests]
    /\ kwargs = [e \in Execs |-> EmptyDict]
    /\ pc = [e \in Execs |-> "RequestValidated"]
    /\ result = [e \in Execs |-> NoResult]
    /\ local = [e \in Execs |-> NoLocals]
    /\ log = [e \in Execs |-> <<>>]

\* process_request of execution e, lines 597-613: setup_auth on the store
\* as it is now.
TwoSetupAuth(e) ==
    /\ pc[e] = "RequestValidated"
    /\ \E kw \in TwoKwargs, lookup \in LookupOutcomes :
         LET env == [default_pick |-> Broker[2], baseline |-> 0,
                     lookup |-> lookup, done |-> FALSE]
             info == setup_auth(sdb, request[e], request[e]["redirect_uri"], kw, env)
         IN  /\ kwargs' = [kwargs EXCEPT ![e] = kw]
             /\ log' = [log EXCEPT ![e] = @ \o info.calls]
             /\ CASE info.kind = "exception" ->
                       /\ result' = [result EXCEPT ![e] = Raised(info.exc)]
                       /\ pc' = [pc EXCEPT ![e] = "Raised"]
                       /\ local' = [local EXCEPT ![e].cause = info.exc]
                  [] info.kind = "error" ->
                       /\ result' = [result EXCEPT ![e] = info.response]
                       /\ pc' = [pc EXCEPT ![e] = "Error"]
                       /\ local' = [local EXCEPT ![e].lookup = Answer(lookup),
                                                  ![e].identity = lookup.uid]
                  [] info.kind = "suspend" ->
                       /\ result' = [result EXCEPT ![e] =
                                        [kind |-> "authn",
                                         body |-> [function |-> info.function,
                                                   args |-> info.args]]]
                       /\ pc' = [pc EXCEPT ![e] = "AuthnPending"]
                       /\ local' = [local EXCEPT ![e].lookup = Answer(lookup),
                                                  ![e].identity = lookup.uid]
                  [] info.kind = "authn_event" ->
                       /\ result' = result
                       /\ pc' = [pc EXCEPT ![e] = "Authenticated"]
                       /\ local' = [local EXCEPT
                                       ![e].lookup = Answer(lookup),
                                       ![e].identity = lookup.uid,
                                       ![e].info = [authn_event |-> info.authn_event,
                                                    user |-> info.user],
                                       ![e].user = info.user]
    /\ UNCHANGED <<conf, cdb, sdb, request>>

\* process_request of execution e, line 617: setup_session.
TwoSetupSession(e) ==
    /\ pc[e] = "Authenticated"
    /\ sdb' = create_authz_session(sdb, local[e].info.authn_event, request[e])
    /\ local' = [local EXCEPT ![e].sid = NewSid(sdb)]
    /\ pc' = [pc EXCEPT ![e] = "SessionCreated"]
    /\ log' = [log EXCEPT ![e] = @ \o <<"sdb.create_authz_session">>]
    /\ UNCHANGED <<conf, cdb, request, kwargs, result>>

\* post_authn of execution e, lines 514-519: the hook and the grant.
TwoAuthorize(e) ==
    /\ pc[e] = "SessionCreated"
    /\ \E authz_ok \in BOOLEAN :
         IF authz_ok
         THEN /\ sdb' = [sdb EXCEPT ![local[e].sid].permission =
                            [tag |-> "permission", user |-> local[e].user]]
              /\ pc' = [pc EXCEPT ![e] = "Authorized"]
              /\ log' = [log EXCEPT ![e] = @ \o <<"authz", "sdb.update(permission)">>]
              /\ UNCHANGED <<result, local>>
         ELSE /\ result' = [result EXCEPT ![e] = Raised("AuthzError")]
              /\ pc' = [pc EXCEPT ![e] = "Raised"]
              /\ local' = [local EXCEPT ![e].cause = "AuthzError"]
              /\ log' = [log EXCEPT ![e] = @ \o <<"authz">>]
              /\ UNCHANGED sdb
    /\ UNCHANGED <<conf, cdb, request, kwargs>>

\* post_authn of execution e, lines 523-535: the revoked check and
\* create_authn_response on the session of e.
TwoAssemble(e) ==
    /\ pc[e] = "Authorized"
    /\ IF sdb[local[e].sid].revoked
       THEN /\ result' = [result EXCEPT ![e] =
                             ErrorResponse([error |-> "access_denied",
                                            error_description |-> "Session is revoked"])]
            /\ pc' = [pc EXCEPT ![e] = "Error"]
            /\ local' = [local EXCEPT ![e].cause = "revoked"]
            /\ log' = [log EXCEPT ![e] = @ \o <<"sdb.is_session_revoked">>]
            /\ UNCHANGED sdb
       ELSE \E signer \in {"ok", "JWEException"} :
              LET out == create_authn_response(sdb, request[e], local[e].sid, signer)
              IN  /\ signer # "ok" => "id_token" \in Range(request[e]["response_type"])
                  /\ sdb' = out.store
                  /\ log' = [log EXCEPT ![e] = @ \o <<"sdb.is_session_revoked",
                                                      "create_authn_response">>
                                                 \o out.calls]
                  /\ CASE out.kind = "exception" ->
                            /\ result' = [result EXCEPT ![e] = ErrorResponse(
                                   [error |-> "unsupported_response_type",
                                    error_description |-> out.body.not_handled])]
                            /\ pc' = [pc EXCEPT ![e] = "Error"]
                            /\ local' = [local EXCEPT ![e].cause = "UnSupported"]
                       [] out.kind = "raised" ->
                            /\ result' = [result EXCEPT ![e] = Raised(out.body.exception)]
                            /\ pc' = [pc EXCEPT ![e] = "Raised"]
                            /\ local' = [local EXCEPT ![e].cause = out.body.exception]
                       [] out.kind = "error" ->
                            /\ result' = [result EXCEPT ![e] = ErrorResponse(out.body)]
                            /\ pc' = [pc EXCEPT ![e] = "Error"]
                            /\ local' = [local EXCEPT ![e].cause = signer]
                       [] out.kind = "info" ->
                            /\ local' = [local EXCEPT ![e].response_info = out.body]
                            /\ pc' = [pc EXCEPT ![e] = "Assembled"]
                            /\ UNCHANGED result
    /\ UNCHANGED <<conf, cdb, request, kwargs>>

\* post_authn lines 537-566 and authz_part2 lines 583-587 of execution e:
\* the redirect URI resolved again, the headers, the mix-up mitigation, and
\* the response handed back through process_request.
TwoDeliver(e) ==
    /\ pc[e] = "Assembled"
    /\ LET r == get_redirect_uri(cdb, request[e])
           info == Put(Put(local[e].response_info, "return_uri", r.uri),
                       "http_headers", <<[cookie |-> local[e].user]>>)
       IN  IF r.raised \in {"RedirectURIError", "ParameterError"}
           THEN /\ result' = [result EXCEPT ![e] =
                                 ErrorResponse(post_authn_uri_error(r.raised))]
                /\ pc' = [pc EXCEPT ![e] = "Error"]
                /\ local' = [local EXCEPT ![e].cause = r.raised]
           ELSE IF r.raised # "None"
           THEN /\ result' = [result EXCEPT ![e] = Raised(r.raised)]
                /\ pc' = [pc EXCEPT ![e] = "Raised"]
                /\ local' = [local EXCEPT ![e].cause = r.raised]
           ELSE /\ result' = [result EXCEPT ![e] =
                                 [kind |-> "payload",
                                  body |-> Put(info, "response_args",
                                               mix_up(info["response_args"],
                                                      request[e]))]]
                /\ pc' = [pc EXCEPT ![e] = "Delivered"]
                /\ local' = [local EXCEPT ![e].response_info = info]
    /\ log' = [log EXCEPT ![e] = @ \o <<"get_redirect_uri", "aresp_check",
                                        "make_headers", "mix_up">>]
    /\ UNCHANGED <<conf, cdb, sdb, request, kwargs>>

TwoNext ==
    \E e \in Execs :
        \/ TwoSetupAuth(e)
        \/ TwoSetupSession(e)
        \/ TwoAuthorize(e)
        \/ TwoAssemble(e)
        \/ TwoDeliver(e)

SpecTwo == TwoInit /\ [][TwoNext]_vars

\* Execution e went the authenticated path and created its session.
HasSession(e) == local[e].sid # 0

\* The session execution e created.
OwnSession(e) == sdb[local[e].sid]

\* Execution e delivered a response that carries a code.
DeliveredCode(e) ==
    /\ pc[e] = "Delivered"
    /\ "code" \in DOMAIN result[e].body["response_args"]

\* Every execution on the authenticated path has exactly one session of
\* its own, under a key the other does not use, and a delivered code is
\* the code of that session and of no other.
OwnSessions ==
    /\ \A e \in Execs :
          /\ HasSession(e) <=> (/\ pc[e] \notin {"RequestValidated", "Authenticated",
                                                 "AuthnPending"}
                                 /\ local[e].user # "")
          /\ HasSession(e) =>
                /\ local[e].sid \in DOMAIN sdb \ DOMAIN Sdb0
                /\ OwnSession(e).client_id = request[e]["client_id"]
                /\ OwnSession(e).authn_event = local[e].info.authn_event
                /\ \A o \in Execs \ {e} : local[o].sid # local[e].sid
          /\ DeliveredCode(e) =>
                /\ result[e].body["response_args"]["code"] = OwnSession(e).code
                /\ \A sid \in DOMAIN sdb \ {local[e].sid} :
                      sdb[sid].code # result[e].body["response_args"]["code"]
    /\ Cardinality(DOMAIN sdb \ DOMAIN Sdb0)
          = Cardinality({e \in Execs : HasSession(e)})

\* A step that is not a step of execution e leaves the position, the
\* locals, the result and the session of e as they are.
NoInterference ==
    \A e \in Execs :
        pc'[e] = pc[e] =>
            /\ result'[e] = result[e]
            /\ local'[e] = local[e]
            /\ HasSession(e) => sdb'[local[e].sid] = sdb[local[e].sid]

=============================================================================
